---- MODULE Spec2Model ----
(***************************************************************************)
(* Foreign storage cache (ForeignStorageCache.cpp) and the caching foreign *)
(* storage manager (CachingForeignStorageMgr.cpp) as a state machine.      *)
(* Every public operation is one action; a handler runs under the cache's  *)
(* write locks, so its effect is taken as one step.  A failed CHECK aborts *)
(* the process (aborted), an exception leaves the state as it was at the   *)
(* throw.                                                                  *)
(***************************************************************************)
EXTENDS Integers, Sequences, FiniteSets, TLC

\* ------------------------------------------------------------------ bounds
\* Page size of the file manager, in bytes (scaled down).
DefaultPageSize == 2
\* Pages per file of the file manager (scaled down).
MAX_FILE_N_PAGES == 2
\* Highest fragment id the foreign storage can hold.
MaxFrag == 2
\* Caps of the two statistics counters.
MaxChunksAdded == 3
MaxMetadataAdded == 4

\* ------------------------------------------------------------- chunk keys
\* ChunkKey = <<db, table, column, fragment>> or <<db, table, column,
\* fragment, sub_id>> (sub_id 1 = data, 2 = index of a variable length column).
Tables == {<<1, 1>>, <<1, 2>>, <<1, 3>>}

\* Catalog: every table has one column; that of a table of id 2 is of variable
\* length, the others are of fixed length; table <<1,1>> refreshes in append
\* mode, the others do not.
Columns(t) == {1}

is_varlen_indeed(t, c) == t[2] = 2

isAppendMode(t) == t = <<1, 1>>

FixedLengthTables == {t \in Tables : \A c \in Columns(t) : ~is_varlen_indeed(t, c)}

SeqToSet(q) == {q[i] : i \in 1..Len(q)}

get_table_key(key) == <<key[1], key[2]>>

FragOf(key) == key[4]

is_varlen_key(key) == Len(key) = 5

is_varlen_data_key(key) == Len(key) = 5 /\ key[5] = 1

IndexKeyOf(key) == <<key[1], key[2], key[3], key[4], 2>>

\* The keys of one column of one fragment.
get_keys_vec_from_table(key) ==
  IF is_varlen_indeed(get_table_key(key), key[3])
    THEN << <<key[1], key[2], key[3], key[4], 1>>,
            <<key[1], key[2], key[3], key[4], 2>> >>
    ELSE << <<key[1], key[2], key[3], key[4]>> >>

\* Keys carrying metadata: one per column and fragment (the data key).
MetaKey(t, c, f) ==
  IF is_varlen_indeed(t, c) THEN <<t[1], t[2], c, f, 1>> ELSE <<t[1], t[2], c, f>>

\* The keys of the fragments 0..(n - 1) of a table.
KeysOfFrags(t, n) ==
  UNION {SeqToSet(get_keys_vec_from_table(MetaKey(t, c, f))) :
           c \in Columns(t), f \in 0..(n - 1)}

\* Lexicographic order of std::vector<int>, the order of std::set<ChunkKey>.
Min2(a, b) == IF a < b THEN a ELSE b

KeyLess(a, b) ==
  \E i \in 1..(Min2(Len(a), Len(b)) + 1) :
     /\ \A j \in 1..(i - 1) : a[j] = b[j]
     /\ \/ i <= Len(a) /\ i <= Len(b) /\ a[i] < b[i]
        \/ i = Len(a) + 1 /\ i <= Len(b)

RECURSIVE SortKeys(_)
SortKeys(S) ==
  IF S = {} THEN <<>>
  ELSE LET m == CHOOSE k \in S : \A o \in S \ {k} : KeyLess(k, o)
       IN <<m>> \o SortKeys(S \ {m})

\* iterate_over_matching_prefix: the keys of a collection under a table prefix.
iterate_over_matching_prefix(coll, prefix) ==
  SortKeys({k \in coll : get_table_key(k) = prefix})

\* ------------------------------------------------------------------ state
VARIABLES
  cached_chunks_,         \* set of ChunkKey
  cached_metadata_,       \* set of ChunkKey
  eviction_tracker_map_,  \* table key -> [eviction_alg_, num_pages_]
  max_pages_per_table_,
  max_cached_bytes_,
  num_chunks_added_,
  num_metadata_added_,
  file_buffers,           \* the file manager: key -> [size, pages, data, enc]
  data_wrapper_map_,      \* tables that have a data wrapper
  wrapper_files,          \* tables whose cache directory holds wrapper_metadata.json
  storage_frags,          \* the foreign storage: table -> number of fragments
  aborted,                \* a CHECK failed: the process is gone
  last_op,                \* what the last operation was and how it ended
  touch_order,            \* history: the cached chunks, last touched first
  insert_run              \* history: the one-page chunks inserted in a row

\* The process-wide caches of BaselineJoinHashTable and of HashTypeCache.
VARIABLES
  hash_type_cache_,         \* chunk keys -> layout
  hash_table_cache_,        \* sequence of [key, table]
  hash_table_cache_mutex_,  \* 0, or the thread that holds the mutex
  put_calls,                \* thread -> its call of putHashTableOnCpuToCache
  last_put,                 \* history: key -> the table stored last
  join_op                   \* what the last join operation was and how it ended

\* The ForeignStorageMgr that runs without a cache.
VARIABLES
  temp_chunk_buffer_map_,   \* chunk key -> ForeignStorageBuffer
  temp_op,                  \* what the last operation on it was and how it ended
  temp_calls,               \* thread -> its call of fetchBuffer or removeTableRelatedDS
  get_calls                 \* thread -> its call of getCachedChunkIfExists

tempvars == <<temp_chunk_buffer_map_, temp_op, temp_calls, get_calls>>

\* The threads inside initHashTableForDevice of the join hash tables.
VARIABLES
  cpu_hash_table_buff_mutex_,  \* join hash table -> 0, or the thread that holds its mutex
  build_calls                  \* thread -> its call of initHashTableForDevice

buildvars == <<cpu_hash_table_buff_mutex_, build_calls>>

\* The threads inside the operations of ForeignStorageCache and its two
\* shared mutexes.
VARIABLES
  metadata_mutex_,   \* [writer: 0 or the thread that holds it, readers: threads]
  chunks_mutex_,     \* the same
  lock_calls         \* thread -> its call: the operation, the step it is at

lockvars == <<metadata_mutex_, chunks_mutex_, lock_calls>>

joinvars == <<hash_type_cache_, hash_table_cache_, hash_table_cache_mutex_,
              put_calls, last_put, join_op>>

cachevars == <<cached_chunks_, cached_metadata_, eviction_tracker_map_,
               max_pages_per_table_, max_cached_bytes_, num_chunks_added_,
               num_metadata_added_, file_buffers, data_wrapper_map_, wrapper_files,
               storage_frags, aborted, last_op, touch_order, insert_run>>

\* What the operations of the cache, and those of the join hash tables, leave
\* alone.
noncachevars == <<joinvars, tempvars, buildvars, lockvars>>

nonjoinvars == <<cachevars, tempvars, buildvars, lockvars>>

vars == <<cached_chunks_, cached_metadata_, eviction_tracker_map_,
          max_pages_per_table_, max_cached_bytes_, num_chunks_added_,
          num_metadata_added_, file_buffers, data_wrapper_map_, wrapper_files,
          storage_frags, aborted, last_op, touch_order, insert_run,
          hash_type_cache_, hash_table_cache_, hash_table_cache_mutex_,
          put_calls, last_put, join_op, temp_chunk_buffer_map_, temp_op, temp_calls,
          get_calls,
          cpu_hash_table_buff_mutex_, build_calls,
          metadata_mutex_, chunks_mutex_, lock_calls>>

\* ------------------------------------------------- LRU eviction algorithm
\* The queue holds the most recently touched key first.
SeqRemove(q, k) == SelectSeq(q, LAMBDA x : x # k)

touchChunk(q, k) == <<k>> \o SeqRemove(q, k)

removeChunk(q, k) == SeqRemove(q, k)

\* evictNextChunk: the key at the back of the queue.
evictNextChunk(q) == q[Len(q)]

popBack(q) == SubSeq(q, 1, Len(q) - 1)

\* ----------------------------------------------------------- file manager
NoData == "none"

PagesFor(size) == (size + (DefaultPageSize - 1)) \div DefaultPageSize

isBufferOnDevice(bufs, key) == key \in DOMAIN bufs

\* putBuffer / a populated buffer: content, size and the pages holding it.
WrittenBuffer(size, data, enc) ==
  [size |-> size, pages |-> PagesFor(size), data |-> data, enc |-> enc]

\* createBuffer: an empty buffer without encoder.
createBuffer == [size |-> 0, pages |-> 0, data |-> NoData, enc |-> FALSE]

\* freeChunkPages: the pages are freed and the content with them.
freeChunkPages(buf) == [buf EXCEPT !.pages = 0, !.data = NoData]

\* resetToEmpty: clears all buffer metadata.
resetToEmpty(buf) == [buf EXCEPT !.size = 0, !.data = NoData]

SetBuf(bufs, key, buf) ==
  [k \in DOMAIN bufs \cup {key} |-> IF k = key THEN buf ELSE bufs[k]]

DropBufs(bufs, keys) == [k \in DOMAIN bufs \ keys |-> bufs[k]]

\* -------------------------------------------------- the cache as a record
\* The operations below are functions of the cache's state: s.err is "none"
\* while the operation runs, "CHECK" after a failed CHECK and the exception's
\* name after a throw; s.log lists, in order, the keys that the operation
\* touched (an insertion, a hit) and those that the LRU evicted.
Cur ==
  [chunks |-> cached_chunks_, meta |-> cached_metadata_,
   trk |-> eviction_tracker_map_, maxp |-> max_pages_per_table_,
   maxb |-> max_cached_bytes_, nca |-> num_chunks_added_,
   nma |-> num_metadata_added_, bufs |-> file_buffers,
   wr |-> data_wrapper_map_, wf |-> wrapper_files, err |-> "none", log |-> <<>>]

Fail(s, e) == [s EXCEPT !.err = e]

Touched(k) == [e |-> "touch", k |-> k]

Evicted(k) == [e |-> "evict", k |-> k]

SetTracker(trk, t, rec) ==
  [x \in DOMAIN trk \cup {t} |-> IF x = t THEN rec ELSE trk[x]]

createTrackerMapEntryIfNoneExists(s, t) ==
  IF t \in DOMAIN s.trk THEN s
  ELSE [s EXCEPT !.trk = SetTracker(s.trk, t, [eviction_alg_ |-> <<>>, num_pages_ |-> 0])]

\* eraseChunk: the key has already left the eviction algorithm.
eraseChunk(s, key, t) ==
  IF key \notin s.chunks THEN s
  ELSE [s EXCEPT !.trk[t].num_pages_ = @ - s.bufs[key].pages,
                 !.bufs[key] = freeChunkPages(@),
                 !.chunks = @ \ {key}]

\* Mutant: one budget for the whole cache; when the table has nothing left
\* to evict, the loop evicts from another table.
RECURSIVE EvictWhileOver_AnyTable(_, _, _)
EvictWhileOver_AnyTable(s, t, need) ==
  IF s.trk[t].num_pages_ + need <= s.maxp THEN s
  ELSE LET from == IF s.trk[t].eviction_alg_ # <<>> THEN {t}
                   ELSE {u \in DOMAIN s.trk : s.trk[u].eviction_alg_ # <<>>}
       IN IF from = {} THEN Fail(s, "NoEntryFoundException")
          ELSE LET u == CHOOSE x \in from : TRUE
                   q == s.trk[u].eviction_alg_
                   k == evictNextChunk(q)
                   s1 == [s EXCEPT !.trk[u].eviction_alg_ = popBack(q),
                                   !.log = Append(@, Evicted(k))]
                   s2 == eraseChunk(s1, k, u)
               IN EvictWhileOver_AnyTable(
                    IF u = t THEN s2 ELSE [s2 EXCEPT !.trk[t].num_pages_ = 0], t, need)

\* One turn of the loops "while (num_pages_ + n > max) eraseChunk(evictNextChunk())";
\* evictNextChunk throws NoEntryFoundException on an empty queue.
RECURSIVE EvictWhileOver(_, _, _)
EvictWhileOver(s, t, need) ==
  IF s.trk[t].num_pages_ + need <= s.maxp THEN s
  ELSE IF s.trk[t].eviction_alg_ = <<>> THEN Fail(s, "NoEntryFoundException")
  ELSE LET q == s.trk[t].eviction_alg_
           k == evictNextChunk(q)
           s1 == [s EXCEPT !.trk[t].eviction_alg_ = popBack(q),
                           !.log = Append(@, Evicted(k))]
       IN EvictWhileOver(eraseChunk(s1, k, t), t, need)

\* Mutant: insertChunkIntoEvictionAlg without the bail on a chunk that is
\* larger than the budget of a table.
insertChunkIntoEvictionAlg_NoBail(s, key, chunk_size) ==
  LET t == get_table_key(key)
      num_pages_for_chunk == PagesFor(chunk_size)
  IN IF t \notin DOMAIN s.trk THEN [s |-> Fail(s, "CHECK"), ok |-> FALSE]
     ELSE LET s1 == EvictWhileOver(s, t, num_pages_for_chunk)
          IN IF s1.err # "none" THEN [s |-> s1, ok |-> FALSE]
             ELSE [s |-> [s1 EXCEPT !.trk[t].eviction_alg_ = touchChunk(@, key),
                                    !.log = Append(@, Touched(key)),
                                    !.chunks = @ \cup {key},
                                    !.trk[t].num_pages_ = @ + num_pages_for_chunk],
                   ok |-> TRUE]

\* insertChunkIntoEvictionAlg: [s, ok].
insertChunkIntoEvictionAlg(s, key, chunk_size) ==
  LET t == get_table_key(key)
      num_pages_for_chunk == PagesFor(chunk_size)
  IN IF t \notin DOMAIN s.trk THEN [s |-> Fail(s, "CHECK"), ok |-> FALSE]
     ELSE IF num_pages_for_chunk > s.maxp THEN [s |-> s, ok |-> FALSE]
     ELSE LET s1 == EvictWhileOver(s, t, num_pages_for_chunk)
          IN IF s1.err # "none" THEN [s |-> s1, ok |-> FALSE]
             ELSE [s |-> [s1 EXCEPT !.trk[t].eviction_alg_ = touchChunk(@, key),
                                    !.log = Append(@, Touched(key)),
                                    !.chunks = @ \cup {key},
                                    !.trk[t].num_pages_ = @ + num_pages_for_chunk],
                   ok |-> TRUE]

\* cacheChunk(chunk_key, buffer), buffer = [size, data].
cacheChunk(s, key, buffer) ==
  LET r == insertChunkIntoEvictionAlg(s, key, buffer.size)
  IN IF r.ok
       THEN [r.s EXCEPT !.nca = @ + 1,
                        !.bufs = SetBuf(@, key, WrittenBuffer(buffer.size, buffer.data, TRUE)),
                        !.meta = @ \cup {key}]
       ELSE r.s

\* cacheTableChunks(chunk_keys): the keys are inserted in order.
RECURSIVE cacheTableChunksLoop(_, _, _)
cacheTableChunksLoop(s, keys, i) ==
  IF i > Len(keys) \/ s.err # "none" THEN s
  ELSE IF ~isBufferOnDevice(s.bufs, keys[i]) THEN Fail(s, "CHECK")
  ELSE LET s1 == [s EXCEPT !.nca = @ + 1]
           r == insertChunkIntoEvictionAlg(s1, keys[i], s1.bufs[keys[i]].size)
       IN cacheTableChunksLoop(r.s, keys, i + 1)

cacheTableChunks(s, keys) ==
  IF keys = <<>> THEN Fail(s, "CHECK")
  ELSE cacheTableChunksLoop(
         createTrackerMapEntryIfNoneExists(s, get_table_key(keys[1])), keys, 1)

\* Mutant: a hit does not touch the chunk.
getCachedChunkIfExists_NoTouch(s, key) ==
  IF key \notin s.chunks THEN [s |-> s, found |-> FALSE, buf |-> createBuffer]
  ELSE [s |-> [s EXCEPT !.log = Append(@, Touched(key))],
        found |-> TRUE, buf |-> s.bufs[key]]

\* getCachedChunkIfExists: [s, found, buf]; found = FALSE stands for nullptr.
getCachedChunkIfExists(s, key) ==
  IF key \notin s.chunks THEN [s |-> s, found |-> FALSE, buf |-> createBuffer]
  ELSE LET t == get_table_key(key)
           s0 == [s EXCEPT !.log = Append(@, Touched(key))]
           s1 == IF t \in DOMAIN s.trk
                   THEN [s0 EXCEPT !.trk[t].eviction_alg_ = touchChunk(@, key)]
                   ELSE s0
       IN [s |-> s1, found |-> TRUE, buf |-> s1.bufs[key]]

\* The file manager's getChunkMetadataVecForKeyPrefix: the keys of the table
\* whose buffer has an encoder.
FileMgrMetadataKeys(bufs, t) ==
  SortKeys({k \in DOMAIN bufs : get_table_key(k) = t /\ bufs[k].enc})

\* Mutant: the recovered keys are not recorded in cached_metadata_.
RECURSIVE recoverLoop_NoMetadata(_, _, _)
recoverLoop_NoMetadata(s, keys, i) ==
  IF i > Len(keys) \/ s.err # "none" THEN s
  ELSE LET s2 == IF s.bufs[keys[i]].pages > 0
                   THEN insertChunkIntoEvictionAlg(s, keys[i], s.bufs[keys[i]].size).s
                   ELSE s
       IN recoverLoop_NoMetadata(s2, keys, i + 1)

RECURSIVE recoverLoop(_, _, _)
recoverLoop(s, keys, i) ==
  IF i > Len(keys) \/ s.err # "none" THEN s
  ELSE LET s1 == [s EXCEPT !.meta = @ \cup {keys[i]}]
           s2 == IF s1.bufs[keys[i]].pages > 0
                   THEN insertChunkIntoEvictionAlg(s1, keys[i], s1.bufs[keys[i]].size).s
                   ELSE s1
       IN recoverLoop(s2, keys, i + 1)

\* recoverCacheForTable(meta_vec, table_key): [s, found].
recoverCacheForTable(s, t) ==
  LET keys == FileMgrMetadataKeys(s.bufs, t)
      s1 == recoverLoop(createTrackerMapEntryIfNoneExists(s, t), keys, 1)
  IN [s |-> s1, found |-> Len(keys) > 0]

evictThenEraseChunkUnlocked(s, key) ==
  LET t == get_table_key(key)
  IN IF t \in DOMAIN s.trk
       THEN eraseChunk([s EXCEPT !.trk[t].eviction_alg_ = removeChunk(@, key)], key, t)
       ELSE s

\* set_metadata_for_buffer: encoder, size, element count, statistics.
set_metadata_for_buffer(buf, numBytes) == [buf EXCEPT !.enc = TRUE, !.size = numBytes]

\* Mutant: the index chunk of a variable length column stays cached.
cacheMetadataEntry_DataOnly(s, key, numBytes) ==
  LET s1 == [s EXCEPT !.meta = @ \cup {key}]
      varlen == is_varlen_key(key)
      index_chunk_key == IndexKeyOf(key)
  IN IF varlen /\ ~is_varlen_data_key(key) THEN Fail(s1, "CHECK")
     ELSE IF varlen /\ (isBufferOnDevice(s1.bufs, key)
                          # isBufferOnDevice(s1.bufs, index_chunk_key))
       THEN Fail(s1, "CHECK")
     ELSE
       LET b0 == IF isBufferOnDevice(s1.bufs, key) THEN s1.bufs[key] ELSE createBuffer
           bufs1 == SetBuf(s1.bufs, key, set_metadata_for_buffer(b0, numBytes))
           bufs2 == IF varlen /\ ~isBufferOnDevice(s1.bufs, index_chunk_key)
                      THEN SetBuf(bufs1, index_chunk_key, createBuffer)
                      ELSE bufs1
           s2 == evictThenEraseChunkUnlocked([s1 EXCEPT !.bufs = bufs2], key)
           s3 == s2
       IN [s3 EXCEPT !.nma = @ + 1]

\* One entry of cacheMetadataVec.
cacheMetadataEntry(s, key, numBytes) ==
  LET s1 == [s EXCEPT !.meta = @ \cup {key}]
      varlen == is_varlen_key(key)
      index_chunk_key == IndexKeyOf(key)
  IN IF varlen /\ ~is_varlen_data_key(key) THEN Fail(s1, "CHECK")
     ELSE IF varlen /\ (isBufferOnDevice(s1.bufs, key)
                          # isBufferOnDevice(s1.bufs, index_chunk_key))
       THEN Fail(s1, "CHECK")
     ELSE
       LET b0 == IF isBufferOnDevice(s1.bufs, key) THEN s1.bufs[key] ELSE createBuffer
           bufs1 == SetBuf(s1.bufs, key, set_metadata_for_buffer(b0, numBytes))
           bufs2 == IF varlen /\ ~isBufferOnDevice(s1.bufs, index_chunk_key)
                      THEN SetBuf(bufs1, index_chunk_key, createBuffer)
                      ELSE bufs1
           s2 == evictThenEraseChunkUnlocked([s1 EXCEPT !.bufs = bufs2], key)
           s3 == IF varlen THEN evictThenEraseChunkUnlocked(s2, index_chunk_key) ELSE s2
       IN [s3 EXCEPT !.nma = @ + 1]

\* cacheMetadataVec(metadata_vec): metadata_vec is a sequence of [key, numBytes].
RECURSIVE cacheMetadataVecLoop(_, _, _)
cacheMetadataVecLoop(s, vec, i) ==
  IF i > Len(vec) \/ s.err # "none" THEN s
  ELSE cacheMetadataVecLoop(cacheMetadataEntry(s, vec[i].key, vec[i].numBytes), vec, i + 1)

cacheMetadataVec(s, vec) == cacheMetadataVecLoop(s, vec, 1)

\* Mutant: the fragment frag_id itself is left out.
cacheMetadataWithFragIdGreaterOrEqualTo_Greater(s, vec, frag_id) ==
  cacheMetadataVec(s, SelectSeq(vec, LAMBDA m : FragOf(m.key) > frag_id))

\* cacheMetadataWithFragIdGreaterOrEqualTo(metadata_vec, frag_id).
cacheMetadataWithFragIdGreaterOrEqualTo(s, vec, frag_id) ==
  cacheMetadataVec(s, SelectSeq(vec, LAMBDA m : FragOf(m.key) >= frag_id))

\* deleteBufferIfExists(chunk_key).
deleteBufferIfExists(s, key) ==
  IF key \notin s.meta THEN s
  ELSE LET t == get_table_key(key)
           s1 == IF t \in DOMAIN s.trk
                   THEN [s EXCEPT !.trk[t].eviction_alg_ = removeChunk(@, key)]
                   ELSE s
       IN [s1 EXCEPT !.bufs = DropBufs(@, {key}),
                     !.chunks = @ \ {key},
                     !.meta = @ \ {key}]

\* eraseChunkByIterator: eviction_tracker_map_.at(table_key) throws
\* std::out_of_range when the table has no tracker.
eraseChunkByIterator(s, key) ==
  LET t == get_table_key(key)
  IN IF t \notin DOMAIN s.trk THEN Fail(s, "out_of_range")
     ELSE [s EXCEPT !.trk[t].eviction_alg_ = removeChunk(@, key),
                    !.trk[t].num_pages_ = @ - s.bufs[key].pages,
                    !.bufs[key] = freeChunkPages(@),
                    !.chunks = @ \ {key}]

RECURSIVE clearChunksLoop(_, _, _)
clearChunksLoop(s, keys, i) ==
  IF i > Len(keys) \/ s.err # "none" THEN s
  ELSE clearChunksLoop(eraseChunkByIterator(s, keys[i]), keys, i + 1)

\* clearForTablePrefix(chunk_prefix): chunks, then metadata, then the table's
\* files (removeTableRelatedDS of the file manager).
clearForTablePrefix(s, t) ==
  LET s1 == clearChunksLoop(s, iterate_over_matching_prefix(s.chunks, t), 1)
  IN IF s1.err # "none" THEN s1
     ELSE [s1 EXCEPT !.meta = {k \in @ : get_table_key(k) # t},
                     !.bufs = DropBufs(@, {k \in DOMAIN s1.bufs : get_table_key(k) = t}),
                     !.wf = @ \ {t}]

\* file_size in setLimit.
FileSize == DefaultPageSize * MAX_FILE_N_PAGES

\* max_num_files * MAX_FILE_N_PAGES, max_num_files rounded up.
MaxPagesFor(limit) == ((limit + (FileSize - 1)) \div FileSize) * MAX_FILE_N_PAGES

RECURSIVE setLimitLoop(_, _, _)
setLimitLoop(s, tabs, i) ==
  IF i > Len(tabs) \/ s.err # "none" THEN s
  ELSE setLimitLoop(EvictWhileOver(s, tabs[i], 0), tabs, i + 1)

\* Mutant: max_pages_per_table_ is assigned before the limit is checked.
setLimit_AssignFirst(s, limit) ==
  LET s1 == [s EXCEPT !.maxp = MaxPagesFor(limit)]
  IN IF limit < FileSize THEN Fail(s1, "CacheTooSmallException")
     ELSE LET s2 == setLimitLoop(s1, SortKeys(DOMAIN s1.trk), 1)
          IN IF s2.err # "none" THEN s2 ELSE [s2 EXCEPT !.maxb = limit]

\* setLimit(limit).
setLimit(s, limit) ==
  IF limit < FileSize THEN Fail(s, "CacheTooSmallException")
  ELSE LET s1 == [s EXCEPT !.maxp = MaxPagesFor(limit)]
           s2 == setLimitLoop(s1, SortKeys(DOMAIN s1.trk), 1)
       IN IF s2.err # "none" THEN s2 ELSE [s2 EXCEPT !.maxb = limit]

\* ------------------------------------------- foreign storage, data wrapper
\* What the foreign storage holds in every chunk.
StorageData == "storage"

\* populateChunkMetadata: one entry per column and fragment in storage.
StorageMetadata(frags, t) ==
  LET keys == SortKeys({MetaKey(t, c, f) : c \in Columns(t), f \in 0..(frags[t] - 1)})
  IN [i \in 1..Len(keys) |-> [key |-> keys[i], numBytes |-> DefaultPageSize]]

hasCachedMetadataForKeyPrefix(s, t) == \E k \in s.meta : get_table_key(k) = t

isMetadataCached(s, key) == key \in s.meta

getCachedChunksForKeyPrefix(s, t) == iterate_over_matching_prefix(s.chunks, t)

\* createDataWrapperIfNotExists: [s, created].
createDataWrapperIfNotExists(s, t) ==
  [s |-> [s EXCEPT !.wr = @ \cup {t}], created |-> t \notin s.wr]

\* createOrRecoverDataWrapperIfNotExists: a new wrapper is restored from the
\* cached metadata, or scans the storage (reach: the storage answers).
createOrRecoverDataWrapperIfNotExists(s, t, reach) ==
  LET r == createDataWrapperIfNotExists(s, t)
  IN IF r.created /\ ~hasCachedMetadataForKeyPrefix(s, t) /\ ~reach
       THEN Fail(r.s, "runtime_error")
       ELSE r.s

\* CachingForeignStorageMgr::getChunkMetadataVecForKeyPrefix: [s, vec].
getChunkMetadataVecForKeyPrefix(s, frags, t, reach) ==
  LET r == createDataWrapperIfNotExists(s, t)
  IN IF ~reach THEN [s |-> Fail(r.s, "runtime_error"), vec |-> <<>>]
     ELSE [s |-> [r.s EXCEPT !.wf = @ \cup {t}], vec |-> StorageMetadata(frags, t)]

\* getChunkBuffersForCaching(chunk_keys): the CHECKs, then resetToEmpty.
RECURSIVE getChunkBuffersForCaching(_, _, _)
getChunkBuffersForCaching(s, keys, i) ==
  IF i > Len(keys) \/ s.err # "none" THEN s
  ELSE IF \/ keys[i] \in s.chunks
          \/ ~isBufferOnDevice(s.bufs, keys[i])
       THEN Fail(s, "CHECK")
  ELSE IF s.bufs[keys[i]].pages # 0 THEN Fail(s, "CHECK")
  ELSE getChunkBuffersForCaching(
         [s EXCEPT !.bufs[keys[i]] = resetToEmpty(@)], keys, i + 1)

\* populateChunkBuffers(required_buffers, {}): every data buffer gets psize
\* bytes of the storage's data and every index buffer one page of it, or the
\* wrapper throws.
populateChunkBuffers(s, keys, psize, ok) ==
  IF s.err # "none" THEN s
  ELSE IF ~ok THEN Fail(s, "runtime_error")
  ELSE [s EXCEPT !.bufs = [k \in DOMAIN s.bufs |->
                            IF k \in SeqToSet(keys)
                              THEN WrittenBuffer(IF is_varlen_key(k) /\ ~is_varlen_data_key(k)
                                                   THEN DefaultPageSize ELSE psize,
                                                 StorageData, s.bufs[k].enc)
                              ELSE s.bufs[k]]]

\* CachingForeignStorageMgr::fetchBuffer(chunk_key, destination, num_bytes):
\* [s, dst]; dst is what was copied to the destination buffer.
fetchBuffer(s, key, psize, reach) ==
  LET s1 == createOrRecoverDataWrapperIfNotExists(s, get_table_key(key), reach)
      chunk_keys == get_keys_vec_from_table(key)
      s2 == IF s1.err # "none" THEN s1 ELSE getChunkBuffersForCaching(s1, chunk_keys, 1)
      s3 == populateChunkBuffers(s2, chunk_keys, psize, reach)
      s4 == IF s3.err # "none" THEN s3 ELSE cacheTableChunks(s3, chunk_keys)
  IN [s |-> s4, dst |-> IF s4.err = "none" THEN s4.bufs[key].data ELSE NoData]
\* ------------------------------------------------------------- refresh
\* Wall-clock time is counted in ticks.
TicksPerSecond == 2

MAX_REFRESH_TIME_IN_SECONDS == 3600

\* std::chrono::duration_cast<std::chrono::seconds>: truncation.
duration_cast_seconds(ticks) == ticks \div TicksPerSecond

\* The environment of one refresh: env.psize is the size of the chunks that
\* the storage delivers, env.fail the number of the storage call that throws
\* (0: none; 1: the metadata scan; n + 1: the n-th populateChunkBuffers),
\* env.durs[n] the ticks that the n-th populateChunkBuffers takes.
PopulateOk(env, n) == env.fail # n + 1

\* The state of the loop of refreshChunksInCacheByFragment: a.s the cache,
\* a.since the ticks since fragment_refresh_start_time, a.wall the ticks since
\* the function started, a.npop the populateChunkBuffers calls so far,
\* a.go_wall the latest a.wall at which the time check let the loop go on,
\* a.batches the key lists of the populateChunkBuffers calls.
PopulateFragment(a, env) ==
  IF a.in_frag = <<>> \/ a.s.err # "none" THEN a
  ELSE LET n == a.npop + 1
           s1 == getChunkBuffersForCaching(a.s, a.in_frag, 1)
           s2 == populateChunkBuffers(s1, a.in_frag, env.psize, PopulateOk(env, n))
       IN [a EXCEPT !.s = s2, !.in_frag = <<>>, !.npop = n,
                    !.batches = Append(@, a.in_frag),
                    !.since = @ + env.durs[n], !.wall = @ + env.durs[n]]

\* The time check at a fragment boundary, b being the loop's state after the
\* buffers of the last fragment were populated: total_time grows by the whole
\* seconds since fragment_refresh_start_time, and the loop stops or goes on
\* with the fragment of chunk_key.
TimeCheck(b, chunk_key) ==
  IF b.s.err # "none" THEN b
  ELSE IF b.total_time + duration_cast_seconds(b.since) >= MAX_REFRESH_TIME_IN_SECONDS
    THEN [b EXCEPT !.total_time = @ + duration_cast_seconds(b.since), !.stopped = TRUE]
    ELSE [b EXCEPT !.total_time = @ + duration_cast_seconds(b.since), !.since = 0,
                   !.fragment_id = FragOf(chunk_key), !.go_wall = b.wall]

\* Mutant: the buffers of the last fragment are not populated at the boundary.
FragmentBoundary_NoFlush(a, chunk_key, env) ==
  IF FragOf(chunk_key) # a.fragment_id
    THEN TimeCheck(a, chunk_key)
    ELSE a

\* if (chunk_key[CHUNK_KEY_FRAGMENT_IDX] != fragment_id) { ... }
FragmentBoundary(a, chunk_key, env) ==
  IF FragOf(chunk_key) # a.fragment_id
    THEN TimeCheck(PopulateFragment(a, env), chunk_key)
    ELSE a

\* The keys that the loop adds for chunk_key: the index key of a variable
\* length chunk first.
KeysToCache(chunk_key) ==
  IF is_varlen_key(chunk_key) THEN <<IndexKeyOf(chunk_key), chunk_key>> ELSE <<chunk_key>>

\* The end of the loop's body: chunk_key joins chunk_keys_in_fragment and
\* chunk_keys_to_be_cached.
AddChunkKey(a, chunk_key) ==
  IF a.s.err # "none" \/ a.stopped THEN a
  ELSE IF is_varlen_key(chunk_key) /\ ~is_varlen_data_key(chunk_key)
    THEN [a EXCEPT !.s = Fail(@, "CHECK")]
    ELSE [a EXCEPT !.in_frag = @ \o KeysToCache(chunk_key),
                   !.to_cache = @ \o KeysToCache(chunk_key)]

RECURSIVE refreshLoop(_, _, _, _, _)
refreshLoop(a, old_chunk_keys, i, start_frag_id, env) ==
  IF i > Len(old_chunk_keys) \/ a.s.err # "none" \/ a.stopped THEN a
  ELSE IF \/ FragOf(old_chunk_keys[i]) < start_frag_id
          \/ ~isMetadataCached(a.s, old_chunk_keys[i])
    THEN refreshLoop(a, old_chunk_keys, i + 1, start_frag_id, env)
    ELSE refreshLoop(
           AddChunkKey(FragmentBoundary(a, old_chunk_keys[i], env), old_chunk_keys[i]),
           old_chunk_keys, i + 1, start_frag_id, env)

\* The end of refreshChunksInCacheByFragment, a being the loop's state after
\* the buffers of the last fragment were populated.
CacheRefreshedChunks(a) ==
  [s |-> IF a.s.err # "none" THEN a.s ELSE cacheTableChunks(a.s, a.to_cache),
   go_wall |-> a.go_wall]

\* refreshChunksInCacheByFragment up to the call of cacheTableChunks: the
\* loop, and populateChunkBuffers for the fragment left over.
RefreshedFragments(s, old_chunk_keys, start_frag_id, env) ==
  PopulateFragment(
    refreshLoop([s |-> s, fragment_id |-> FragOf(old_chunk_keys[1]),
                 in_frag |-> <<>>, to_cache |-> <<>>, total_time |-> 0,
                 since |-> 0, wall |-> 0, npop |-> 0, stopped |-> FALSE,
                 go_wall |-> -1, batches |-> <<>>],
                old_chunk_keys, 1, start_frag_id, env),
    env)

\* refreshChunksInCacheByFragment(old_chunk_keys, start_frag_id): [s, go_wall].
refreshChunksInCacheByFragment(s, old_chunk_keys, start_frag_id, env) ==
  IF old_chunk_keys = <<>> \/ s.err # "none" THEN [s |-> s, go_wall |-> -1]
  ELSE CacheRefreshedChunks(RefreshedFragments(s, old_chunk_keys, start_frag_id, env))

\* getHighestCachedFragId(table_key).
RECURSIVE MaxOf(_)
MaxOf(S) ==
  IF S = {} THEN 0
  ELSE LET x == CHOOSE y \in S : TRUE
           m == MaxOf(S \ {x})
       IN IF x > m THEN x ELSE m

getHighestCachedFragId(s, t) == MaxOf({FragOf(k) : k \in {m \in s.meta : get_table_key(m) = t}})

\* catch (std::runtime_error& e) { throw PostEvictionRefreshException(e); }
IsRuntimeError(e) == e \in {"runtime_error", "NoEntryFoundException"}

WrapPostEviction(s) ==
  IF IsRuntimeError(s.err) THEN Fail(s, "PostEvictionRefreshException") ELSE s

\* The refresh operations return [s, phase, go_wall, cleared, cause]: phase is
\* the step in which the operation ended, cleared whether clearForTablePrefix
\* ran, cause the error that ended the operation, before it was wrapped.
RefreshResult(s, phase, go_wall, cleared) ==
  [s |-> s, phase |-> phase, go_wall |-> go_wall, cleared |-> cleared, cause |-> s.err]

Wrapped(r) == [r EXCEPT !.s = WrapPostEviction(@)]

\* Mutant: the errors of the re-caching are passed on as they are.
refreshAppendTableInCache_NoWrap(s, frags, t, old_chunk_keys, env) ==
  LET s1 == createOrRecoverDataWrapperIfNotExists(s, t, env.fail # 1)
      last_frag_id == getHighestCachedFragId(s1, t)
      sc == getChunkMetadataVecForKeyPrefix(s1, frags, t, env.fail # 1)
  IN IF s1.err # "none" THEN RefreshResult(s1, "scan", -1, FALSE)
     ELSE IF sc.s.err # "none" THEN RefreshResult(sc.s, "scan", -1, FALSE)
     ELSE LET s2 == cacheMetadataWithFragIdGreaterOrEqualTo(sc.s, sc.vec, last_frag_id)
              r == refreshChunksInCacheByFragment(s2, old_chunk_keys, last_frag_id, env)
          IN IF r.s.err = "none" THEN RefreshResult(r.s, "done", r.go_wall, FALSE)
             ELSE RefreshResult(r.s, "recache", r.go_wall, FALSE)

\* The end of refreshAppendTableInCache: a runtime error of the re-caching is
\* thrown as PostEvictionRefreshException.
AppendOutcome(r) ==
  IF r.s.err = "none" THEN RefreshResult(r.s, "done", r.go_wall, FALSE)
  ELSE Wrapped(RefreshResult(r.s, "recache", r.go_wall, FALSE))

\* The try block of refreshAppendTableInCache, sc being the result of the scan.
AppendRecache(sc, last_frag_id, old_chunk_keys, env) ==
  IF sc.s.err # "none" THEN RefreshResult(sc.s, "scan", -1, FALSE)
  ELSE AppendOutcome(
         refreshChunksInCacheByFragment(
           cacheMetadataWithFragIdGreaterOrEqualTo(sc.s, sc.vec, last_frag_id),
           old_chunk_keys, last_frag_id, env))

\* refreshAppendTableInCache after createOrRecoverDataWrapperIfNotExists.
AppendScan(s, frags, t, old_chunk_keys, env) ==
  IF s.err # "none" THEN RefreshResult(s, "scan", -1, FALSE)
  ELSE AppendRecache(getChunkMetadataVecForKeyPrefix(s, frags, t, env.fail # 1),
                     getHighestCachedFragId(s, t), old_chunk_keys, env)

\* refreshAppendTableInCache(table_key, old_chunk_keys).
refreshAppendTableInCache(s, frags, t, old_chunk_keys, env) ==
  AppendScan(createOrRecoverDataWrapperIfNotExists(s, t, env.fail # 1),
             frags, t, old_chunk_keys, env)

\* Mutant: the table is cleared before the storage is scanned.
refreshNonAppendTableInCache_ClearFirst(s, frags, t, old_chunk_keys, env) ==
  LET s1 == clearForTablePrefix(s, t)
      sc == getChunkMetadataVecForKeyPrefix(s1, frags, t, env.fail # 1)
  IN IF s1.err # "none" THEN RefreshResult(s1, "clear", -1, TRUE)
     ELSE IF sc.s.err # "none" THEN RefreshResult(sc.s, "scan", -1, TRUE)
     ELSE LET s2 == cacheMetadataVec(sc.s, sc.vec)
              r == refreshChunksInCacheByFragment(s2, old_chunk_keys, 0, env)
          IN IF r.s.err = "none" THEN RefreshResult(r.s, "done", r.go_wall, TRUE)
             ELSE Wrapped(RefreshResult(r.s, "recache", r.go_wall, TRUE))

\* The end of refreshNonAppendTableInCache: a runtime error of the re-caching
\* is thrown as PostEvictionRefreshException.
NonAppendOutcome(r) ==
  IF r.s.err = "none" THEN RefreshResult(r.s, "done", r.go_wall, TRUE)
  ELSE Wrapped(RefreshResult(r.s, "recache", r.go_wall, TRUE))

\* The try block of refreshNonAppendTableInCache, s being the cache after
\* clearForTablePrefix.
NonAppendRecache(s, vec, old_chunk_keys, env) ==
  IF s.err # "none" THEN RefreshResult(s, "clear", -1, TRUE)
  ELSE NonAppendOutcome(
         refreshChunksInCacheByFragment(cacheMetadataVec(s, vec), old_chunk_keys, 0, env))

\* refreshNonAppendTableInCache after the scan, sc being its result.
NonAppendClear(sc, t, old_chunk_keys, env) ==
  IF sc.s.err # "none" THEN RefreshResult(sc.s, "scan", -1, FALSE)
  ELSE NonAppendRecache(clearForTablePrefix(sc.s, t), sc.vec, old_chunk_keys, env)

\* refreshNonAppendTableInCache(table_key, old_chunk_keys).
refreshNonAppendTableInCache(s, frags, t, old_chunk_keys, env) ==
  NonAppendClear(getChunkMetadataVecForKeyPrefix(s, frags, t, env.fail # 1),
                 t, old_chunk_keys, env)

\* refreshTableInCache(table_key).
refreshTableInCache(s, frags, t, env) ==
  LET s1 == IF ~hasCachedMetadataForKeyPrefix(s, t)
              THEN recoverCacheForTable(s, t).s
              ELSE s
      old_chunk_keys == getCachedChunksForKeyPrefix(s1, t)
  IN IF s1.err # "none" THEN RefreshResult(s1, "recover", -1, FALSE)
     ELSE IF isAppendMode(t)
       THEN refreshAppendTableInCache(s1, frags, t, old_chunk_keys, env)
       ELSE refreshNonAppendTableInCache(s1, frags, t, old_chunk_keys, env)

\* CachingForeignStorageMgr::refreshTable(table_key, evict_cached_entries).
refreshTable(s, frags, t, evict_cached_entries, env) ==
  IF evict_cached_entries
    THEN LET s1 == clearForTablePrefix(s, t)
         IN RefreshResult(s1, IF s1.err = "none" THEN "done" ELSE "clear", -1, TRUE)
    ELSE refreshTableInCache(s, frags, t, env)

\* ------------------------------------------------------------ the inputs
\* Buffers handed to cacheChunk: one page, and one page more than a file.
BufferSizes == {1, FileSize + 1}

BufferData == {"a"}

\* Chunk sizes in the foreign storage: one page, two pages.
PopulateSizes == {1, DefaultPageSize + 1}

Limits == {FileSize - 1, FileSize, FileSize + 1}

\* Half a second, and half a second less than the refresh limit.
ShortTime == TicksPerSecond \div 2

LongTime == MAX_REFRESH_TIME_IN_SECONDS * TicksPerSecond - ShortTime

Envs(nfrags, durations) ==
  [psize : PopulateSizes, fail : 0..(nfrags + 1), durs : [1..nfrags -> durations]]

NoEnv(nfrags) == [psize |-> 1, fail |-> 0, durs |-> [n \in 1..nfrags |-> ShortTime]]

\* The foreign tables of the catalog.
ForeignTables == DOMAIN storage_frags

\* The chunk keys that the callers of the cache know of: those of the
\* fragments in the foreign storage and those the cache holds.
KnownKeys ==
  UNION {KeysOfFrags(t, storage_frags[t]) : t \in ForeignTables}
    \cup cached_chunks_ \cup cached_metadata_ \cup DOMAIN file_buffers

\* ------------------------------------------------------------- the actions
NoBuf == [size |-> 0, data |-> NoData]

\* The record of an operation: its name, its key (a chunk or a table key),
\* the buffer passed in, how it ended (res), its touches and evictions (log),
\* for a refresh the RefreshResult, for setLimit the limit passed in and for
\* cacheMetadataVec the keys of the vector passed in and those of them, and
\* of their index keys, that were cached chunks (held), for
\* refreshChunksInCacheByFragment the key lists of its populateChunkBuffers
\* calls (batches), the list for cacheTableChunks (to_cache) and whether the
\* time limit ended the loop (stopped).
Op(op, key, s, phase, go_wall) ==
  [op |-> op, key |-> key, buf |-> NoBuf, res |-> s.err, log |-> s.log,
   phase |-> phase, go_wall |-> go_wall, cleared |-> FALSE, cause |-> s.err,
   limit |-> -1, vec |-> <<>>, held |-> {}, batches |-> <<>>, to_cache |-> <<>>,
   stopped |-> FALSE]

Quiet(op, key) ==
  [op |-> op, key |-> key, buf |-> NoBuf, res |-> "none", log |-> <<>>,
   phase |-> "done", go_wall |-> -1, cleared |-> FALSE, cause |-> "none",
   limit |-> -1, vec |-> <<>>, held |-> {}, batches |-> <<>>, to_cache |-> <<>>,
   stopped |-> FALSE]

\* The touches and evictions of an operation, applied to the touch order.
RECURSIVE Replay(_, _, _)
Replay(order, log, i) ==
  IF i > Len(log) THEN order
  ELSE Replay(IF log[i].e = "touch"
                THEN <<log[i].k>> \o SelectSeq(order, LAMBDA x : x # log[i].k)
                ELSE SelectSeq(order, LAMBDA x : x # log[i].k),
              log, i + 1)

\* No chunk is cached and no page is accounted for.
IsClean(s) ==
  /\ s.chunks = {}
  /\ \A t \in DOMAIN s.trk :
        s.trk[t].num_pages_ = 0 /\ s.trk[t].eviction_alg_ = <<>>

NoRun == [ok |-> FALSE, keys |-> <<>>]

EmptyRun == [ok |-> TRUE, keys |-> <<>>]

\* insert_run.keys are the distinct chunks of one table that cacheChunk has
\* inserted, one page each, since the cache was clean, with no other
\* operation in between; insert_run.ok is FALSE when there is no such run.
NextRun(s, op) ==
  IF IsClean(s) /\ s.err = "none" THEN EmptyRun
  ELSE IF /\ op.op = "cacheChunk"
          /\ insert_run.ok
          /\ s.err = "none"
          /\ s.nca = num_chunks_added_ + 1
          /\ PagesFor(op.buf.size) = 1
          /\ op.key \notin SeqToSet(insert_run.keys)
          /\ \A k \in SeqToSet(insert_run.keys) : get_table_key(k) = get_table_key(op.key)
    THEN [ok |-> TRUE, keys |-> Append(insert_run.keys, op.key)]
  ELSE NoRun

\* The state that an operation leaves, and the record of the operation.
Apply(s, op) ==
  /\ s.nca <= MaxChunksAdded
  /\ s.nma <= MaxMetadataAdded
  /\ cached_chunks_' = s.chunks
  /\ cached_metadata_' = s.meta
  /\ eviction_tracker_map_' = s.trk
  /\ max_pages_per_table_' = s.maxp
  /\ max_cached_bytes_' = s.maxb
  /\ num_chunks_added_' = s.nca
  /\ num_metadata_added_' = s.nma
  /\ file_buffers' = s.bufs
  /\ data_wrapper_map_' = s.wr
  /\ wrapper_files' = s.wf
  /\ aborted' = (s.err = "CHECK")
  /\ last_op' = op
  /\ touch_order' = SelectSeq(Replay(touch_order, s.log, 1), LAMBDA k : k \in s.chunks)
  /\ insert_run' = NextRun(s, op)
  /\ UNCHANGED noncachevars

EmptyFun == [k \in {} |-> 0]

\* ------------------------------------------- baseline join hash table
\* INT32_MAX, scaled to the tuple counts of the model.
INT32_MAX == 7

\* The largest upper bound of the tuple count of an inner table.
MaxTuples == 4

\* How far the HyperLogLog estimate may be from the number of distinct keys.
HllError == 2

\* The number of calls of getInstance in one behaviour.
MaxJoins == 2

JoinThreads == {1, 2}

JoinDb == 1

JoinColumn == 1

\* The inner tables: 1 and 2 are tables of the catalog, -1 is a temporary
\* table (the result of a subquery), 3 has no fragment.
JoinTables == {-1, 1, 2, 3}

\* The composite keys of the rows of the inner table, as fetchJoinColumn
\* returns them: table 1 and the temporary table hold a duplicated key.
InnerRows(t) ==
  CASE t = 1 -> <<1, 1, 2>>
    [] t = 2 -> <<1, 2>>
    [] t = -1 -> <<1, 1>>
    [] OTHER -> <<>>

HasDuplicate(rows) ==
  \E i \in DOMAIN rows, j \in DOMAIN rows : i < j /\ rows[i] = rows[j]

DistinctKeys(rows) == Cardinality({rows[i] : i \in DOMAIN rows})

Max2(a, b) == IF a >= b THEN a ELSE b

\* hll_size over the rows: an estimate of the number of distinct keys, exact
\* or off by HllError.
Estimates(rows) ==
  {n \in 0..(MaxTuples + HllError) :
     \/ n = DistinctKeys(rows)
     \/ n = DistinctKeys(rows) - HllError
     \/ n = DistinctKeys(rows) + HllError}

JoinOpTypes == {"kEQ", "kOVERLAPS"}

Faults == {"none", "OutOfMemory", "FailedToFetchColumn", "TableMustBeReplicated"}

\* What the second reifyWithLayout of a reify may raise.
RetryFaults == {"none", "OutOfMemory", "TableMustBeReplicated"}

\* getCompositeKeyInfo().cache_key_chunks: one chunk key per inner column.
cache_key_chunks(t) == << <<JoinDb, t, JoinColumn>> >>

HashTableCacheKey(num_elements, chunk_keys, optype) ==
  [num_elements |-> num_elements, chunk_keys |-> chunk_keys, optype |-> optype]

\* The key of the cached table of a join: initHashTableForDevice.
CacheKeyOf(q) ==
  HashTableCacheKey(Len(InnerRows(q.t)), cache_key_chunks(q.t), q.optype)

\* for (auto chunk_key : key) if (chunk_key[1] < 0) return;
HasTemporaryTable(chunk_keys) ==
  \E i \in DOMAIN chunk_keys : chunk_keys[i][2] < 0

NullTable == [layout |-> "none", entry_count |-> 0]

\* ------------------------------------------------------- HashTypeCache
\* HashTypeCache::set without the check of the table ids of the chunk keys.
HashTypeCache_set_AnyKey(cache, key, hash_type) ==
  [k \in (DOMAIN cache) \cup {key} |-> IF k = key THEN hash_type ELSE cache[k]]

HashTypeCache_set(cache, key, hash_type) ==
  IF HasTemporaryTable(key) THEN cache
  ELSE [k \in (DOMAIN cache) \cup {key} |-> IF k = key THEN hash_type ELSE cache[k]]

HashTypeCache_get(cache, key) ==
  IF key \in DOMAIN cache
    THEN [type |-> cache[key], found |-> TRUE]
    ELSE [type |-> "OneToOne", found |-> FALSE]

\* ---------------------------------------------------- hash_table_cache_
\* The position of the first entry of the key, 0 when there is none.
FirstEntry(cache, key) ==
  LET hits == {i \in DOMAIN cache : cache[i].key = key}
  IN IF hits = {} THEN 0 ELSE CHOOSE i \in hits : \A j \in hits : i <= j

initHashTableOnCpuFromCache(cache, key) ==
  IF FirstEntry(cache, key) = 0 THEN NullTable
  ELSE cache[FirstEntry(cache, key)].table

putHashTableOnCpuToCache(cache, key, hash_table) ==
  IF HasTemporaryTable(key.chunk_keys) THEN cache
  ELSE IF FirstEntry(cache, key) # 0
    THEN [cache EXCEPT ![FirstEntry(cache, key)].table = hash_table]
    ELSE Append(cache, [key |-> key, table |-> hash_table])

\* Mutant: the entry count of the cached table is taken for its tuple count.
getApproximateTupleCountFromCache_EntryCount(cache, key) ==
  IF HasTemporaryTable(key.chunk_keys) THEN [found |-> FALSE, count |-> 0]
  ELSE IF FirstEntry(cache, key) # 0
    THEN [found |-> TRUE, count |-> cache[FirstEntry(cache, key)].table.entry_count]
    ELSE [found |-> FALSE, count |-> 0]

getApproximateTupleCountFromCache(cache, key) ==
  IF HasTemporaryTable(key.chunk_keys) THEN [found |-> FALSE, count |-> 0]
  ELSE IF FirstEntry(cache, key) # 0
    THEN [found |-> TRUE, count |-> cache[FirstEntry(cache, key)].table.entry_count \div 2]
    ELSE [found |-> FALSE, count |-> 0]

\* get_entries_per_device on the CPU, without shards.
get_entries_per_device(total_entries) == total_entries

\* ------------------------------------------------ BaselineJoinHashTable
\* A new BaselineJoinHashTable over the process-wide caches: no table built,
\* and the history of its reify.
JoinInstance(htc, cache, entry_count) ==
  [htc |-> htc, cache |-> cache, table |-> NullTable, entry_count_ |-> entry_count,
   err |-> "none", attempts |-> <<>>, first_err |-> "none", set_called |-> FALSE,
   hit |-> 0, built |-> NullTable, stored |-> FALSE]

\* The callers of reifyWithLayout are counted: one more layout was attempted.
Attempt(j, layout) == [j EXCEPT !.attempts = Append(@, layout)]

\* approximateTupleCount on the CPU: the cached count, or the estimate.
approximateTupleCount(j, q, est) ==
  IF getApproximateTupleCountFromCache(j.cache, CacheKeyOf(q)).found
    THEN getApproximateTupleCountFromCache(j.cache, CacheKeyOf(q)).count
    ELSE est

\* reifyWithLayout, the size of a OneToMany table.
SizeForLayout(j, q, layout, est) ==
  IF layout = "OneToMany"
    THEN [j EXCEPT !.entry_count_ =
            get_entries_per_device(2 * Max2(approximateTupleCount(j, q, est), 1))]
    ELSE j

\* initHashTableForDevice, the table was built without an error.
BuildTable(j, q, tbl) ==
  [j EXCEPT !.table = tbl,
            !.built = tbl,
            !.stored = q.t > 0,
            !.cache = IF q.t > 0 THEN putHashTableOnCpuToCache(@, CacheKeyOf(q), tbl)
                      ELSE @]

\* initHashTableForDevice on the CPU: the cached table of the key, or a new
\* one; a OneToOne table cannot be built over a duplicated key.
initHashTableForDevice(j, q, layout) ==
  IF initHashTableOnCpuFromCache(j.cache, CacheKeyOf(q)) # NullTable
    THEN [j EXCEPT !.table = initHashTableOnCpuFromCache(j.cache, CacheKeyOf(q)),
                   !.hit = IF @ = 0 THEN Len(j.attempts) ELSE @]
  ELSE IF layout = "OneToOne" /\ HasDuplicate(InnerRows(q.t))
    THEN [j EXCEPT !.err = "HashJoinFail"]
  ELSE BuildTable(j, q, [layout |-> layout, entry_count |-> j.entry_count_])

\* reifyWithLayout: nothing to do without fragments; the columns are fetched
\* (fault: what fetching or building raises), the table is sized and built.
reifyWithLayout(j, q, layout, fault, est) ==
  IF InnerRows(q.t) = <<>> THEN j
  ELSE IF fault # "none" THEN [Attempt(j, layout) EXCEPT !.err = fault]
  ELSE initHashTableForDevice(SizeForLayout(Attempt(j, layout), q, layout, est),
                              q, layout)

\* The catch without the call of HashTypeCache::set.
Caught_NoRecord(first, q) ==
  [first EXCEPT !.err = "none",
                !.first_err = first.err,
                !.table = NullTable,
                !.set_called = TRUE]

\* reify, the catch of std::exception: the buffers are freed, OneToMany is
\* recorded in HashTypeCache.
Caught(first, q) ==
  [first EXCEPT !.err = "none",
                !.first_err = first.err,
                !.table = NullTable,
                !.set_called = TRUE,
                !.htc = HashTypeCache_set(@, cache_key_chunks(q.t), "OneToMany")]

\* reify, after the first reifyWithLayout.
ReifyOutcome(first, q, retry_fault, est) ==
  IF first.err = "none" THEN first
  ELSE reifyWithLayout(Caught(first, q), q, "OneToMany", retry_fault, est)

\* Mutant: an overlaps join is retried with OneToMany like any other.
reify_OverlapsRetry(j, q, preferred_layout, first_fault, retry_fault, est) ==
  IF q.optype = "kOVERLAPS"
    THEN ReifyOutcome(
           reifyWithLayout(j, q, IF q.outer_is_array THEN "ManyToMany" ELSE "OneToMany",
                           first_fault, est),
           q, retry_fault, est)
    ELSE ReifyOutcome(
           reifyWithLayout(j, q,
                           IF HashTypeCache_get(j.htc, cache_key_chunks(q.t)).found
                             THEN HashTypeCache_get(j.htc, cache_key_chunks(q.t)).type
                             ELSE preferred_layout,
                           first_fault, est),
           q, retry_fault, est)

reify(j, q, preferred_layout, first_fault, retry_fault, est) ==
  IF q.optype = "kOVERLAPS"
    THEN reifyWithLayout(j, q, IF q.outer_is_array THEN "ManyToMany" ELSE "OneToMany",
                         first_fault, est)
    ELSE ReifyOutcome(
           reifyWithLayout(j, q,
                           IF HashTypeCache_get(j.htc, cache_key_chunks(q.t)).found
                             THEN HashTypeCache_get(j.htc, cache_key_chunks(q.t)).type
                             ELSE preferred_layout,
                           first_fault, est),
           q, retry_fault, est)

\* checkHashJoinReplicationConstraint, without shards (shardCount() is 0 on
\* the CPU): TRUE when TableMustBeReplicated is thrown.
checkHashJoinReplicationConstraint(q) ==
  q.g_cluster /\ q.t >= 0 /\ ~q.is_replicated

\* getInstance, the catch clauses around reify.
getInstanceCatch(err) ==
  CASE err = "TableMustBeReplicated" -> "runtime_error"
    [] err = "HashJoinFail" -> "HashJoinFail"
    [] err = "FailedToFetchColumn" -> "HashJoinFail"
    [] err = "OutOfMemory" -> "HashJoinFail"
    [] OTHER -> "runtime_error"

\* getInstance, after reify.
AfterReify(j) ==
  [j |-> j, res |-> IF j.err = "none" THEN "ok" ELSE getInstanceCatch(j.err)]

getInstance(htc, cache, q, preferred, first_fault, retry_fault, est) ==
  IF 2 * q.ub > INT32_MAX
    THEN [j |-> JoinInstance(htc, cache, 0), res |-> "TooManyHashEntries"]
  ELSE IF checkHashJoinReplicationConstraint(q)
    THEN [j |-> JoinInstance(htc, cache, get_entries_per_device(2 * q.ub)),
          res |-> "TableMustBeReplicated"]
  ELSE AfterReify(reify(JoinInstance(htc, cache, get_entries_per_device(2 * q.ub)),
                        q, preferred, first_fault, retry_fault, est))

\* ------------------------------------------------------ join operations
IdleCall == [pc |-> "idle", key |-> <<>>, table |-> NullTable, at |-> 0]

JoinRecord(op, n) ==
  [op |-> op, n |-> n, t |-> 0, optype |-> "none", preferred |-> "none", res |-> "none",
   layout |-> "none", entry_count |-> 0, attempts |-> <<>>, first_err |-> "none",
   last_err |-> "none", set_called |-> FALSE, hit |-> 0, built |-> NullTable,
   found_before |-> FALSE, key |-> <<>>, existed |-> FALSE, len_before |-> 0,
   table |-> NullTable, entry_count_ |-> 0, cached_before |-> NullTable,
   outer_is_array |-> FALSE]

\* (In the record of a getInstance, entry_count_ is that of the instance at
\* the end and cached_before the table that hash_table_cache_ held under the
\* key of the call.)
\* The record of an operation that is not a getInstance: n counts the calls
\* of getInstance so far.
JoinQuiet(op) == JoinRecord(op, join_op.n)

\* The process starts: both caches are empty and nobody holds the mutex.
InitJoin ==
  /\ hash_type_cache_ = EmptyFun
  /\ hash_table_cache_ = <<>>
  /\ hash_table_cache_mutex_ = 0
  /\ put_calls = [th \in JoinThreads |-> IdleCall]
  /\ last_put = EmptyFun
  /\ join_op = JoinRecord("init", 0)

\* The join hash tables of the process: two over the same inner table and
\* one over a temporary table.  cpu_hash_table_buff_mutex_ is a member of
\* each of them (the static members are hash_table_cache_ and
\* hash_table_cache_mutex_).
JoinHashTables == {1, 2, 3}

InnerTableOf(inst) == IF inst = 3 THEN -1 ELSE 1

IdleBuild == [pc |-> "idle", inst |-> 0, table |-> NullTable]

InitBuild ==
  /\ cpu_hash_table_buff_mutex_ = [inst \in JoinHashTables |-> 0]
  /\ build_calls = [th \in JoinThreads |-> IdleBuild]

\* ------------------------------- the two mutexes of ForeignStorageCache
\* The threads that call the cache, and the calls that each of them makes.
CacheThreads == {1, 2}

MaxCalls == 1

\* The steps of an operation that matter to the mutexes: taking and
\* releasing a write_lock (lock, unlock) or a read_lock (lock_shared,
\* unlock_shared), reading or writing one of the shared collections, and a
\* return in the middle of the operation.
Lock(m) == [do |-> "lock", on |-> m]

LockShared(m) == [do |-> "lock_shared", on |-> m]

Unlock(m) == [do |-> "unlock", on |-> m]

UnlockShared(m) == [do |-> "unlock_shared", on |-> m]

Read(v) == [do |-> "read", on |-> v]

Write(v) == [do |-> "write", on |-> v]

MayReturn == [do |-> "return", on |-> "none"]

deleteBufferIfExistsSteps ==
  <<Lock("metadata_mutex_"), Lock("chunks_mutex_"), Read("cached_metadata_"),
    Write("eviction_tracker_map_"), Write("cached_chunks_"), Write("cached_metadata_"),
    Unlock("chunks_mutex_"), Unlock("metadata_mutex_")>>

cacheChunkSteps ==
  <<Lock("metadata_mutex_"), Lock("chunks_mutex_"), Write("eviction_tracker_map_"),
    Write("cached_chunks_"), Write("cached_metadata_"),
    Unlock("chunks_mutex_"), Unlock("metadata_mutex_")>>

cacheTableChunksSteps ==
  <<Lock("chunks_mutex_"), Write("eviction_tracker_map_"), Write("cached_chunks_"),
    Unlock("chunks_mutex_")>>

\* Mutant: the read_lock is still held when the write_lock is requested.
getCachedChunkIfExistsSteps_Upgrade ==
  <<LockShared("chunks_mutex_"), Read("cached_chunks_"), MayReturn,
    Lock("chunks_mutex_"), Write("eviction_tracker_map_"), Unlock("chunks_mutex_"),
    UnlockShared("chunks_mutex_")>>

getCachedChunkIfExistsSteps ==
  <<LockShared("chunks_mutex_"), Read("cached_chunks_"), UnlockShared("chunks_mutex_"),
    MayReturn,
    Lock("chunks_mutex_"), Write("eviction_tracker_map_"), Unlock("chunks_mutex_")>>

isMetadataCachedSteps ==
  <<LockShared("metadata_mutex_"), Read("cached_metadata_"),
    UnlockShared("metadata_mutex_")>>

recoverCacheForTableSteps ==
  <<Lock("chunks_mutex_"), Write("eviction_tracker_map_"), Write("cached_metadata_"),
    Write("cached_chunks_"), Unlock("chunks_mutex_")>>

evictThenEraseChunkSteps ==
  <<Lock("chunks_mutex_"), Write("eviction_tracker_map_"), Write("cached_chunks_"),
    Unlock("chunks_mutex_")>>

cacheMetadataVecSteps ==
  <<Lock("metadata_mutex_"), Lock("chunks_mutex_"), Write("cached_metadata_"),
    Write("eviction_tracker_map_"), Write("cached_chunks_"),
    Unlock("chunks_mutex_"), Unlock("metadata_mutex_")>>

getCachedMetadataVecForKeyPrefixSteps ==
  <<LockShared("metadata_mutex_"), Read("cached_metadata_"),
    UnlockShared("metadata_mutex_")>>

hasCachedMetadataForKeyPrefixSteps ==
  <<LockShared("metadata_mutex_"), Read("cached_metadata_"),
    UnlockShared("metadata_mutex_")>>

\* clearForTablePrefix, and clear, which takes and releases the same locks.
clearForTablePrefixSteps ==
  <<Lock("chunks_mutex_"), Write("eviction_tracker_map_"), Write("cached_chunks_"),
    Unlock("chunks_mutex_"),
    Lock("metadata_mutex_"), Write("cached_metadata_"), Unlock("metadata_mutex_")>>

setLimitSteps ==
  <<Lock("chunks_mutex_"), Write("eviction_tracker_map_"), Write("cached_chunks_"),
    Unlock("chunks_mutex_")>>

\* getCachedChunksForKeyPrefix, and getChunkBuffersForCaching, which takes and
\* releases the same lock.
getCachedChunksForKeyPrefixSteps ==
  <<LockShared("chunks_mutex_"), Read("cached_chunks_"), UnlockShared("chunks_mutex_")>>

LockedOperations ==
  {"deleteBufferIfExists", "cacheChunk", "cacheTableChunks", "getCachedChunkIfExists",
   "isMetadataCached", "recoverCacheForTable", "evictThenEraseChunk", "cacheMetadataVec",
   "getCachedMetadataVecForKeyPrefix", "hasCachedMetadataForKeyPrefix",
   "clearForTablePrefix", "setLimit", "getCachedChunksForKeyPrefix"}

StepsOf(op) ==
  CASE op = "deleteBufferIfExists" -> deleteBufferIfExistsSteps
    [] op = "cacheChunk" -> cacheChunkSteps
    [] op = "cacheTableChunks" -> cacheTableChunksSteps
    [] op = "getCachedChunkIfExists" -> getCachedChunkIfExistsSteps
    [] op = "isMetadataCached" -> isMetadataCachedSteps
    [] op = "recoverCacheForTable" -> recoverCacheForTableSteps
    [] op = "evictThenEraseChunk" -> evictThenEraseChunkSteps
    [] op = "cacheMetadataVec" -> cacheMetadataVecSteps
    [] op = "getCachedMetadataVecForKeyPrefix" -> getCachedMetadataVecForKeyPrefixSteps
    [] op = "hasCachedMetadataForKeyPrefix" -> hasCachedMetadataForKeyPrefixSteps
    [] op = "clearForTablePrefix" -> clearForTablePrefixSteps
    [] op = "setLimit" -> setLimitSteps
    [] op = "getCachedChunksForKeyPrefix" -> getCachedChunksForKeyPrefixSteps
    [] OTHER -> <<>>

FreeMutex == [writer |-> 0, readers |-> {}]

IdleLockCall(calls) == [op |-> "idle", pc |-> 0, calls |-> calls]

InitLocks ==
  /\ metadata_mutex_ = FreeMutex
  /\ chunks_mutex_ = FreeMutex
  /\ lock_calls = [th \in CacheThreads |-> IdleLockCall(0)]

\* The step that a thread is at.
NoStep == [do |-> "none", on |-> "none"]

StepAt(th) ==
  IF lock_calls[th].op = "idle" THEN NoStep
  ELSE StepsOf(lock_calls[th].op)[lock_calls[th].pc]

\* The thread has done its step: it is at the next one, or the call is over.
Advance(th) ==
  IF lock_calls[th].pc = Len(StepsOf(lock_calls[th].op))
    THEN [lock_calls EXCEPT ![th] = IdleLockCall(lock_calls[th].calls)]
    ELSE [lock_calls EXCEPT ![th].pc = @ + 1]

MutexOf(m) == IF m = "metadata_mutex_" THEN metadata_mutex_ ELSE chunks_mutex_

\* The mutexes after mutex m has become v.
SetMutex(m, v) ==
  /\ metadata_mutex_' = IF m = "metadata_mutex_" THEN v ELSE metadata_mutex_
  /\ chunks_mutex_' = IF m = "chunks_mutex_" THEN v ELSE chunks_mutex_

Holds(th, m) == MutexOf(m).writer = th \/ th \in MutexOf(m).readers

\* A thread calls an operation of the cache.
LockCall(th) ==
  \E op \in LockedOperations :
    /\ lock_calls[th].op = "idle"
    /\ lock_calls[th].calls < MaxCalls
    /\ lock_calls' = [lock_calls EXCEPT ![th] = [op |-> op, pc |-> 1, calls |-> @.calls + 1]]
    /\ UNCHANGED <<metadata_mutex_, chunks_mutex_>>

\* write_lock lock(mutex): waits until nobody holds the mutex.
LockExclusive(th) ==
  /\ StepAt(th).do = "lock"
  /\ MutexOf(StepAt(th).on) = FreeMutex
  /\ SetMutex(StepAt(th).on, [writer |-> th, readers |-> {}])
  /\ lock_calls' = Advance(th)

\* read_lock lock(mutex): waits until nobody holds the mutex exclusively.
LockSharedStep(th) ==
  /\ StepAt(th).do = "lock_shared"
  /\ MutexOf(StepAt(th).on).writer = 0
  /\ SetMutex(StepAt(th).on, [MutexOf(StepAt(th).on) EXCEPT !.readers = @ \cup {th}])
  /\ lock_calls' = Advance(th)

\* The end of the scope of a lock.
UnlockStep(th) ==
  /\ StepAt(th).do \in {"unlock", "unlock_shared"}
  /\ SetMutex(StepAt(th).on,
              IF StepAt(th).do = "unlock"
                THEN [MutexOf(StepAt(th).on) EXCEPT !.writer = 0]
                ELSE [MutexOf(StepAt(th).on) EXCEPT !.readers = @ \ {th}])
  /\ lock_calls' = Advance(th)

\* The thread reads or writes a shared collection.
AccessStep(th) ==
  /\ StepAt(th).do \in {"read", "write"}
  /\ lock_calls' = Advance(th)
  /\ UNCHANGED <<metadata_mutex_, chunks_mutex_>>

\* The operation goes on, or returns here (no lock is held at such a step).
ReturnStep(th) ==
  /\ StepAt(th).do = "return"
  /\ \/ lock_calls' = Advance(th)
     \/ lock_calls' = [lock_calls EXCEPT ![th] = IdleLockCall(lock_calls[th].calls)]
  /\ UNCHANGED <<metadata_mutex_, chunks_mutex_>>

\* A step of a thread inside an operation.
LockStep(th) ==
  \/ LockExclusive(th)
  \/ LockSharedStep(th)
  \/ UnlockStep(th)
  \/ AccessStep(th)
  \/ ReturnStep(th)

\* The history of the tables stored in hash_table_cache_.
Stored(hist, key, tbl) ==
  [k \in (DOMAIN hist) \cup {key} |-> IF k = key THEN tbl ELSE hist[k]]

\* What getInstance leaves.
ApplyJoin(r, q, preferred) ==
  /\ hash_type_cache_' = r.j.htc
  /\ hash_table_cache_' = r.j.cache
  /\ last_put' = IF r.j.stored THEN Stored(last_put, CacheKeyOf(q), r.j.built)
                 ELSE last_put
  /\ join_op' = [JoinRecord("getInstance", join_op.n + 1) EXCEPT
                   !.t = q.t, !.optype = q.optype, !.preferred = preferred,
                   !.res = r.res,
                   !.layout = IF r.res = "ok" THEN r.j.table.layout ELSE "none",
                   !.entry_count = IF r.res = "ok" THEN r.j.table.entry_count ELSE 0,
                   !.attempts = r.j.attempts,
                   !.first_err = r.j.first_err,
                   !.last_err = IF r.res = "TableMustBeReplicated" THEN r.res ELSE r.j.err,
                   !.set_called = r.j.set_called,
                   !.hit = r.j.hit,
                   !.built = r.j.built,
                   !.found_before =
                      HashTypeCache_get(hash_type_cache_, cache_key_chunks(q.t)).found,
                   !.entry_count_ = r.j.entry_count_,
                   !.outer_is_array = q.outer_is_array,
                   !.cached_before =
                      initHashTableOnCpuFromCache(hash_table_cache_, CacheKeyOf(q))]

\* A query builds the hash table of a join over an inner table.
GetInstance ==
  \E t \in JoinTables, ub \in 0..MaxTuples :
    /\ hash_table_cache_mutex_ = 0
    /\ join_op.n < MaxJoins
    /\ ub >= Len(InnerRows(t))
    /\ (InnerRows(t) = <<>>) => ub = 0
    /\ \E est \in Estimates(InnerRows(t)), optype \in JoinOpTypes,
          outer_is_array \in BOOLEAN, g_cluster \in BOOLEAN, is_replicated \in BOOLEAN :
         /\ outer_is_array => optype = "kOVERLAPS"
         /\ is_replicated => g_cluster
         /\ \E preferred \in {"OneToOne", "OneToMany"},
               first_fault \in Faults, retry_fault \in RetryFaults :
              /\ (first_fault = "TableMustBeReplicated") => g_cluster
              /\ (retry_fault = "TableMustBeReplicated") => g_cluster
              /\ \E q \in {[t |-> t, optype |-> optype, outer_is_array |-> outer_is_array,
                            ub |-> ub, g_cluster |-> g_cluster,
                            is_replicated |-> is_replicated]} :
                  \E r \in {getInstance(hash_type_cache_, hash_table_cache_, q,
                                        preferred, first_fault, retry_fault, est)} :
                    ApplyJoin(r, q, preferred)
    /\ UNCHANGED <<nonjoinvars, hash_table_cache_mutex_, put_calls>>

\* ForeignStorageCache(config): the constructor, over an empty directory.
\* ------------------------------------ ForeignStorageMgr without a cache
\* The tables of the storage manager that runs without a cache: two tables
\* of the same id in two databases, both with a variable length column, and
\* a table of fixed length.
UncachedTables == {<<1, 2>>, <<2, 2>>, <<1, 3>>}

\* Whether the data wrapper answers: it does, or populateChunkMetadata
\* throws, or populateChunkBuffers throws.
WrapperFaults == {"none", "populateChunkMetadata", "populateChunkBuffers"}

\* A ForeignStorageBuffer: new, or holding the chunk of a key.
EmptyTempBuffer == [size |-> 0, data |-> NoData, key |-> <<>>]

PopulatedBuffer(key) == [size |-> DefaultPageSize, data |-> StorageData, key |-> key]

\* std::set<ChunkKey> of the keys of the column of chunk_key in its fragment.
get_keys_set_from_table(destination_chunk_key) ==
  LET db_id == destination_chunk_key[1]
      table_id == destination_chunk_key[2]
      column_id == destination_chunk_key[3]
      fragment_id == destination_chunk_key[4]
  IN IF is_varlen_indeed(<<db_id, table_id>>, column_id)
       THEN {<<db_id, table_id, column_id, fragment_id, 1>>,
             <<db_id, table_id, column_id, fragment_id, 2>>}
       ELSE {<<db_id, table_id, column_id, fragment_id>>}

\* The manager's state while a handler runs: the wrappers, the temp map, what
\* the destination buffer holds, the exception, and what the data wrapper
\* was asked for (scanned: populateChunkMetadata, populated: the keys of
\* populateChunkBuffers).
CurMgr ==
  [wr |-> data_wrapper_map_, tmp |-> temp_chunk_buffer_map_, dst |-> EmptyTempBuffer,
   err |-> "none", scanned |-> FALSE, populated |-> {}]

\* allocateTempBuffersForChunks(chunk_keys): a new buffer under every key.
allocateTempBuffersForChunks(tmp, chunk_keys) ==
  [k \in DOMAIN tmp \cup chunk_keys |->
     IF k \in chunk_keys THEN EmptyTempBuffer ELSE tmp[k]]

\* std::map::erase of the range [lower_bound(from), upper_bound(to)).
EraseRange(tmp, from, to) ==
  [k \in {x \in DOMAIN tmp : KeyLess(x, from) \/ KeyLess(to, x)} |-> tmp[k]]

clearTempChunkBufferMapEntriesForTable_ToEnd(tmp, table_key) ==
  EraseRange(tmp, table_key, <<INT32_MAX>>)

clearTempChunkBufferMapEntriesForTable(tmp, table_key) ==
  EraseRange(tmp, table_key, <<table_key[1], table_key[2], INT32_MAX>>)

removeTableRelatedDS(m, db_id, table_id) ==
  [m EXCEPT !.wr = @ \ {<<db_id, table_id>>},
            !.tmp = clearTempChunkBufferMapEntriesForTable(@, <<db_id, table_id>>)]

\* fetchBufferIfTempBufferMapEntryExists: [m, found].
fetchBufferIfTempBufferMapEntryExists(m, chunk_key) ==
  IF chunk_key \notin DOMAIN m.tmp THEN [m |-> m, found |-> FALSE]
  ELSE [m |-> [m EXCEPT !.dst = m.tmp[chunk_key],
                        !.tmp = [k \in DOMAIN m.tmp \ {chunk_key} |-> m.tmp[k]]],
        found |-> TRUE]

\* createAndPopulateDataWrapperIfNotExists: a new wrapper scans the storage.
createAndPopulateDataWrapperIfNotExists(m, chunk_key, fault) ==
  LET table_key == get_table_key(chunk_key)
  IN IF table_key \in m.wr THEN m
     ELSE [m EXCEPT !.wr = @ \cup {table_key}, !.scanned = TRUE,
                    !.err = IF fault = "populateChunkMetadata"
                              THEN "runtime_error" ELSE "none"]

\* The keys that get a temp buffer in fetchBuffer.
TempKeysFor_All(chunk_key) == get_keys_set_from_table(chunk_key)

TempKeysFor(chunk_key) == get_keys_set_from_table(chunk_key) \ {chunk_key}

\* The rest of fetchBuffer, after the wrapper is there: the temp buffers and
\* populateChunkBuffers, which writes to them and to the destination.
PopulateRequired(m, chunk_key, fault) ==
  LET chunk_keys == TempKeysFor(chunk_key)
      tmp1 == allocateTempBuffersForChunks(m.tmp, chunk_keys)
      required_buffers == chunk_keys \cup {chunk_key}
  IN IF fault = "populateChunkBuffers"
       THEN [m EXCEPT !.tmp = tmp1, !.populated = required_buffers,
                      !.err = "runtime_error"]
       ELSE [m EXCEPT !.tmp = [k \in DOMAIN tmp1 |->
                                 IF k \in chunk_keys THEN PopulatedBuffer(k) ELSE tmp1[k]],
                      !.dst = PopulatedBuffer(chunk_key),
                      !.populated = required_buffers]

\* ForeignStorageMgr::fetchBuffer(chunk_key, destination_buffer, num_bytes).
ForeignStorageMgr_fetchBuffer(m, chunk_key, fault) ==
  LET r == fetchBufferIfTempBufferMapEntryExists(m, chunk_key)
  IN IF r.found THEN r.m
     ELSE LET m1 == createAndPopulateDataWrapperIfNotExists(m, chunk_key, fault)
          IN IF m1.err # "none" THEN m1 ELSE PopulateRequired(m1, chunk_key, fault)

\* ForeignStorageMgr::getChunkMetadataVecForKeyPrefix(chunk_metadata, keyPrefix).
ForeignStorageMgr_getChunkMetadataVecForKeyPrefix(m, keyPrefix, fault) ==
  [m EXCEPT !.wr = @ \cup {keyPrefix}, !.scanned = TRUE,
            !.err = IF fault = "populateChunkMetadata" THEN "runtime_error" ELSE "none"]

\* The record of an operation of the manager: its name, its key (a chunk or
\* a table key), how it ended, what the destination buffer holds, what the
\* wrapper was asked for, and the wrappers and the temp map before it.
TempRecord(op, key, m) ==
  [op |-> op, key |-> key, res |-> m.err, dst |-> m.dst, scanned |-> m.scanned,
   populated |-> m.populated, wr0 |-> data_wrapper_map_,
   tmp0 |-> temp_chunk_buffer_map_]

\* The threads that call the manager, and the calls that each of them makes.
FetchThreads == {1, 2}

MaxTempCalls == 2

\* The call of a thread: the operation, the step it is at, its key, the keys
\* of the temp buffers that it holds raw pointers to (ptrs), whether one of
\* these buffers was destroyed since (dangling), and what copyTo has copied.
IdleTempCall(calls) ==
  [op |-> "idle", pc |-> "idle", key |-> <<>>, ptrs |-> {}, dangling |-> FALSE,
   got |-> EmptyTempBuffer, calls |-> calls]

\* The call of getCachedChunkIfExists of a thread: the step it is at, its
\* key, what it returned (res) and whether the key was in cached_chunks_
\* when the second lock scope touched it.
IdleGetCall(calls) ==
  [pc |-> "idle", key |-> <<>>, res |-> "none", cached_at_touch |-> FALSE,
   calls |-> calls]

InitTemp ==
  /\ get_calls = [th \in FetchThreads |-> IdleGetCall(0)]
  /\ temp_calls = [th \in FetchThreads |-> IdleTempCall(0)]
  /\ temp_chunk_buffer_map_ = EmptyFun
  /\ temp_op = [op |-> "init", key |-> <<>>, res |-> "none", dst |-> EmptyTempBuffer,
                scanned |-> FALSE, populated |-> {}, wr0 |-> {}, tmp0 |-> EmptyFun]

ApplyMgr(m, op, key) ==
  /\ temp_calls' = temp_calls
  /\ get_calls' = get_calls
  /\ data_wrapper_map_' = m.wr
  /\ temp_chunk_buffer_map_' = m.tmp
  /\ temp_op' = TempRecord(op, key, m)
  /\ UNCHANGED <<cached_chunks_, cached_metadata_, eviction_tracker_map_,
                 max_pages_per_table_, max_cached_bytes_, num_chunks_added_,
                 num_metadata_added_, file_buffers, wrapper_files, storage_frags,
                 aborted, last_op, touch_order, insert_run>>
  /\ UNCHANGED <<joinvars, buildvars, lockvars>>

UncachedFetchBuffer ==
  \E t \in DOMAIN storage_frags, c \in {1}, f \in 0..MaxFrag, fault \in WrapperFaults :
    /\ f < storage_frags[t]
    /\ \E chunk_key \in get_keys_set_from_table(MetaKey(t, c, f)) :
         /\ fault = "populateChunkMetadata" => t \notin data_wrapper_map_
         /\ fault # "none" => chunk_key \notin DOMAIN temp_chunk_buffer_map_
         /\ ApplyMgr(ForeignStorageMgr_fetchBuffer(CurMgr, chunk_key, fault),
                     "fetchBuffer", chunk_key)

UncachedGetChunkMetadataVecForKeyPrefix ==
  \E t \in DOMAIN storage_frags, fault \in {"none", "populateChunkMetadata"} :
    ApplyMgr(ForeignStorageMgr_getChunkMetadataVecForKeyPrefix(CurMgr, t, fault),
             "getChunkMetadataVecForKeyPrefix", t)

RemoveTableRelatedDS ==
  \E t \in DOMAIN storage_frags :
    ApplyMgr(removeTableRelatedDS(CurMgr, t[1], t[2]), "removeTableRelatedDS", t)

\* ---------------------- the threads inside ForeignStorageMgr::fetchBuffer
\* What a thread step leaves alone, apart from the wrappers, the temp map
\* and the calls.
TempFrame ==
  /\ UNCHANGED <<cached_chunks_, cached_metadata_, eviction_tracker_map_,
                 max_pages_per_table_, max_cached_bytes_, num_chunks_added_,
                 num_metadata_added_, file_buffers, wrapper_files, storage_frags,
                 aborted, last_op, touch_order, insert_run, temp_op, get_calls>>
  /\ UNCHANGED <<joinvars, buildvars, lockvars>>

\* No thread has crashed on a destroyed buffer.
TempRunning == \A th \in FetchThreads : temp_calls[th].pc # "crashed"

\* The calls after thread me has destroyed the buffers of the keys gone: the
\* unique_ptr of a map entry was erased or assigned anew, and the raw
\* pointers that other threads took from it dangle.
Destroyed(calls, gone, me) ==
  [th \in FetchThreads |->
     IF th # me /\ calls[th].ptrs \cap gone # {}
       THEN [calls[th] EXCEPT !.dangling = TRUE]
       ELSE calls[th]]

\* What copyTo may leave in the destination when it reads a destroyed buffer.
GarbageBuffer == [size |-> 0, data |-> "garbage", key |-> <<>>]

\* A thread calls fetchBuffer for a chunk, or removeTableRelatedDS for a table.
TempCall ==
  \E th \in FetchThreads, t \in DOMAIN storage_frags, f \in 0..MaxFrag :
    /\ TempRunning
    /\ temp_calls[th].op = "idle"
    /\ temp_calls[th].calls < MaxTempCalls
    /\ f < storage_frags[t]
    /\ \/ \E chunk_key \in get_keys_set_from_table(MetaKey(t, 1, f)) :
            temp_calls' = [temp_calls EXCEPT ![th] =
              [@ EXCEPT !.op = "fetchBuffer", !.pc = "find", !.key = chunk_key,
                        !.calls = @ + 1, !.got = EmptyTempBuffer]]
       \/ /\ f = 0
          /\ temp_calls' = [temp_calls EXCEPT ![th] =
               [@ EXCEPT !.op = "removeTableRelatedDS", !.pc = "erase_wrapper", !.key = t,
                         !.calls = @ + 1, !.got = EmptyTempBuffer]]
    /\ UNCHANGED <<data_wrapper_map_, temp_chunk_buffer_map_>>
    /\ TempFrame

\* fetchBufferIfTempBufferMapEntryExists, under the shared lock: the key is
\* looked up and the raw pointer of its buffer is taken.
TempFind ==
  \E th \in FetchThreads :
    /\ TempRunning
    /\ temp_calls[th].pc = "find"
    /\ temp_calls' = [temp_calls EXCEPT ![th] =
         IF @.key \in DOMAIN temp_chunk_buffer_map_
           THEN [@ EXCEPT !.pc = "copy", !.ptrs = {temp_calls[th].key},
                          !.dangling = FALSE]
           ELSE [@ EXCEPT !.pc = "wrapper"]]
    /\ UNCHANGED <<data_wrapper_map_, temp_chunk_buffer_map_>>
    /\ TempFrame

\* buffer->copyTo(destination_buffer, num_bytes), with no lock held.  Reading
\* a destroyed buffer is undefined: the thread crashes, or copies anything.
TempCopy ==
  \E th \in FetchThreads :
    /\ TempRunning
    /\ temp_calls[th].pc = "copy"
    /\ IF temp_calls[th].dangling
         THEN \/ temp_calls' = [temp_calls EXCEPT ![th].pc = "crashed"]
              \/ \E b \in {GarbageBuffer, EmptyTempBuffer,
                            PopulatedBuffer(temp_calls[th].key)} :
                   temp_calls' = [temp_calls EXCEPT ![th].pc = "erase", ![th].got = b]
         ELSE temp_calls' = [temp_calls EXCEPT
                ![th].pc = "erase",
                ![th].got = temp_chunk_buffer_map_[temp_calls[th].key]]
    /\ UNCHANGED <<data_wrapper_map_, temp_chunk_buffer_map_>>
    /\ TempFrame

\* temp_chunk_buffer_map_.erase(chunk_key) under the exclusive lock.
TempErase ==
  \E th \in FetchThreads :
    /\ TempRunning
    /\ temp_calls[th].pc = "erase"
    /\ temp_chunk_buffer_map_' =
         [k \in DOMAIN temp_chunk_buffer_map_ \ {temp_calls[th].key} |->
            temp_chunk_buffer_map_[k]]
    /\ temp_calls' =
         [Destroyed(temp_calls,
                    {temp_calls[th].key} \cap DOMAIN temp_chunk_buffer_map_, th)
            EXCEPT ![th] = IdleTempCall(temp_calls[th].calls)]
    /\ UNCHANGED data_wrapper_map_
    /\ TempFrame

\* createAndPopulateDataWrapperIfNotExists, for a key without temp buffer.
TempCreateWrapper ==
  \E th \in FetchThreads :
    /\ TempRunning
    /\ temp_calls[th].pc = "wrapper"
    /\ data_wrapper_map_' = data_wrapper_map_ \cup {get_table_key(temp_calls[th].key)}
    /\ temp_calls' = [temp_calls EXCEPT ![th].pc = "allocate"]
    /\ UNCHANGED temp_chunk_buffer_map_
    /\ TempFrame

\* allocateTempBuffersForChunks under the exclusive lock: every sibling key
\* gets a new buffer, and the buffer that it had is destroyed.
TempAllocate ==
  \E th \in FetchThreads :
    /\ TempRunning
    /\ temp_calls[th].pc = "allocate"
    /\ temp_chunk_buffer_map_' =
         allocateTempBuffersForChunks(temp_chunk_buffer_map_,
                                      TempKeysFor(temp_calls[th].key))
    /\ temp_calls' =
         [Destroyed(temp_calls,
                    TempKeysFor(temp_calls[th].key) \cap DOMAIN temp_chunk_buffer_map_, th)
            EXCEPT ![th] = [@ EXCEPT !.pc = "populate",
                                     !.ptrs = TempKeysFor(temp_calls[th].key),
                                     !.dangling = FALSE]]
    /\ UNCHANGED data_wrapper_map_
    /\ TempFrame

\* populateChunkBuffers writes the destination buffer and, through the raw
\* pointers of required_buffers, the temp buffers that are still there.
TempPopulate ==
  \E th \in FetchThreads :
    /\ TempRunning
    /\ temp_calls[th].pc = "populate"
    /\ IF temp_calls[th].dangling
         THEN /\ temp_calls' = [temp_calls EXCEPT ![th].pc = "crashed"]
              /\ UNCHANGED temp_chunk_buffer_map_
         ELSE /\ temp_chunk_buffer_map_' =
                   [k \in DOMAIN temp_chunk_buffer_map_ |->
                      IF k \in temp_calls[th].ptrs THEN PopulatedBuffer(k)
                      ELSE temp_chunk_buffer_map_[k]]
              /\ temp_calls' = [temp_calls EXCEPT ![th] =
                   [IdleTempCall(@.calls) EXCEPT !.got = PopulatedBuffer(temp_calls[th].key)]]
    /\ UNCHANGED data_wrapper_map_
    /\ TempFrame

\* removeTableRelatedDS: data_wrapper_map_.erase(table_key) under the lock of
\* the wrappers.
TempEraseWrapper ==
  \E th \in FetchThreads :
    /\ TempRunning
    /\ temp_calls[th].pc = "erase_wrapper"
    /\ data_wrapper_map_' = data_wrapper_map_ \ {temp_calls[th].key}
    /\ temp_calls' = [temp_calls EXCEPT ![th].pc = "clear"]
    /\ UNCHANGED temp_chunk_buffer_map_
    /\ TempFrame

\* clearTempChunkBufferMapEntriesForTable under the exclusive lock.
TempClear ==
  \E th \in FetchThreads :
    /\ TempRunning
    /\ temp_calls[th].pc = "clear"
    /\ temp_chunk_buffer_map_' =
         clearTempChunkBufferMapEntriesForTable(temp_chunk_buffer_map_, temp_calls[th].key)
    /\ temp_calls' =
         [Destroyed(temp_calls,
                    DOMAIN temp_chunk_buffer_map_
                      \ DOMAIN clearTempChunkBufferMapEntriesForTable(
                                  temp_chunk_buffer_map_, temp_calls[th].key), th)
            EXCEPT ![th] = IdleTempCall(temp_calls[th].calls)]
    /\ UNCHANGED data_wrapper_map_
    /\ TempFrame

InitCache(limit) ==
  /\ cached_chunks_ = {}
  /\ cached_metadata_ = {}
  /\ eviction_tracker_map_ = EmptyFun
  /\ max_cached_bytes_ = limit
  /\ max_pages_per_table_ = MaxPagesFor(limit)
  /\ num_chunks_added_ = 0
  /\ num_metadata_added_ = 0
  /\ file_buffers = EmptyFun
  /\ data_wrapper_map_ = {}
  /\ wrapper_files = {}
  /\ aborted = FALSE
  /\ last_op = Quiet("init", <<>>)
  /\ touch_order = <<>>
  /\ insert_run = EmptyRun

\* The storage manager without a cache, over the tables of UncachedTables
\* of two fragments each.
InitUncached ==
  /\ InitCache(FileSize)
  /\ InitJoin
  /\ InitTemp
  /\ InitBuild
  /\ InitLocks
  /\ storage_frags = [t \in UncachedTables |-> 2]

NextUncached ==
  \/ UncachedFetchBuffer
  \/ UncachedGetChunkMetadataVecForKeyPrefix
  \/ RemoveTableRelatedDS

SpecUncached == InitUncached /\ [][NextUncached]_vars

\* The threads of the storage manager without a cache, over one table with a
\* variable length column and one fragment.
InitFetchThreads ==
  /\ InitCache(FileSize)
  /\ InitJoin
  /\ InitTemp
  /\ InitBuild
  /\ InitLocks
  /\ storage_frags = [t \in {<<1, 2>>} |-> 1]

NextFetchThreads ==
  \/ TempCall
  \/ TempFind
  \/ TempCopy
  \/ TempErase
  \/ TempCreateWrapper
  \/ TempAllocate
  \/ TempPopulate
  \/ TempEraseWrapper
  \/ TempClear

SpecFetchThreads == InitFetchThreads /\ [][NextFetchThreads]_vars

\* The cache alone, over two tables of one fragment each, one of them with
\* a variable length column.
Init ==
  /\ InitCache(FileSize + 1)
  /\ InitJoin
  /\ InitTemp
  /\ InitBuild
  /\ InitLocks
  /\ storage_frags = [t \in {x \in Tables : ~isAppendMode(x)} |-> 1]

\* The cache alone, over one table of MaxFrag + 1 fragments and fixed length.
InitLru ==
  /\ InitCache(FileSize + 1)
  /\ InitJoin
  /\ InitTemp
  /\ InitBuild
  /\ InitLocks
  /\ storage_frags = [t \in {x \in FixedLengthTables : ~isAppendMode(x)} |-> MaxFrag + 1]

\* The caching storage manager with a cache of one file, over one foreign
\* table, in append mode or with a variable length column, in a foreign
\* storage that grows.
InitMgr ==
  /\ InitCache(FileSize)
  /\ InitJoin
  /\ InitTemp
  /\ InitBuild
  /\ InitLocks
  /\ \E t \in {x \in Tables : isAppendMode(x) \/ x \notin FixedLengthTables} :
       storage_frags = [x \in {t} |-> 1]

CacheChunk ==
  \E key \in KnownKeys, size \in BufferSizes, data \in BufferData :
    /\ ~aborted
    /\ \E buffer \in {[size |-> size, data |-> data]} :
        \E s \in {cacheChunk(Cur, key, buffer)} :
          Apply(s, [Op("cacheChunk", key, s, "done", -1) EXCEPT !.buf = buffer])
    /\ UNCHANGED storage_frags

\* The metadata scan of a table.
GetChunkMetadataVecForKeyPrefix ==
  \E t \in ForeignTables, reach \in BOOLEAN :
    /\ ~aborted
    /\ \E r \in {getChunkMetadataVecForKeyPrefix(Cur, storage_frags, t, reach)} :
          Apply(r.s, Op("getChunkMetadataVecForKeyPrefix", t, r.s, "done", -1))
    /\ UNCHANGED storage_frags

\* cacheMetadataVec with the metadata of the fragments from frag_id on that
\* a scan of the table returns.
\* The keys that cacheMetadataVec invalidates: those of the vector and the
\* index keys of its variable length data keys.
Invalidated(vec) ==
  SeqToSet(vec) \cup {IndexKeyOf(k) : k \in {x \in SeqToSet(vec) : is_varlen_data_key(x)}}

\* The keys of the entries of metadata_vec from fragment frag_id on.
VecKeys(vec, frag_id) ==
  LET kept == SelectSeq(vec, LAMBDA m : FragOf(m.key) >= frag_id)
  IN [i \in 1..Len(kept) |-> kept[i].key]

CacheMetadataVec ==
  \E t \in ForeignTables, frag_id \in 0..MaxFrag :
    /\ ~aborted
    /\ frag_id = 0 \/ frag_id < storage_frags[t]
    /\ \E s \in {cacheMetadataWithFragIdGreaterOrEqualTo(
                   Cur, StorageMetadata(storage_frags, t), frag_id)} :
          Apply(s, [Op("cacheMetadataVec", t, s, "done", -1)
                      EXCEPT !.vec = VecKeys(StorageMetadata(storage_frags, t), frag_id),
                             !.held = cached_chunks_ \cap Invalidated(
                                        VecKeys(StorageMetadata(storage_frags, t), frag_id))])
    /\ UNCHANGED storage_frags

\* fetchBuffer is called for a chunk with cached metadata that is not cached.
FetchBuffer ==
  \E key \in KnownKeys, psize \in PopulateSizes, reach \in BOOLEAN :
    /\ ~aborted
    /\ get_keys_vec_from_table(key)[1] \in cached_metadata_
    /\ key \notin cached_chunks_
    /\ \E r \in {fetchBuffer(Cur, key, psize, reach)} :
          Apply(r.s, Op("fetchBuffer", key, r.s, "done", -1))
    /\ UNCHANGED storage_frags

GetCachedChunkIfExists ==
  \E key \in KnownKeys :
    /\ ~aborted
    /\ \E r \in {getCachedChunkIfExists(Cur, key)} :
          Apply(r.s, [Op("getCachedChunkIfExists", key, r.s, "done", -1)
                        EXCEPT !.res = IF r.found THEN "none" ELSE "nullptr"])
    /\ UNCHANGED storage_frags

DeleteBufferIfExists ==
  \E key \in KnownKeys :
    /\ ~aborted
    /\ \E s \in {deleteBufferIfExists(Cur, key)} :
          Apply(s, Op("deleteBufferIfExists", key, s, "done", -1))
    /\ UNCHANGED storage_frags

\* recoverCacheForTable is called for a table without cached metadata.
RecoverCacheForTable ==
  \E t \in ForeignTables :
    /\ ~aborted
    /\ ~hasCachedMetadataForKeyPrefix(Cur, t)
    /\ \E r \in {recoverCacheForTable(Cur, t)} :
          Apply(r.s, Op("recoverCacheForTable", t, r.s, "done", -1))
    /\ UNCHANGED storage_frags

ClearForTablePrefix ==
  \E t \in ForeignTables :
    /\ ~aborted
    /\ \E s \in {clearForTablePrefix(Cur, t)} :
          Apply(s, Op("clearForTablePrefix", t, s, "done", -1))
    /\ UNCHANGED storage_frags

SetLimit ==
  \E limit \in Limits :
    /\ ~aborted
    /\ \E s \in {setLimit(Cur, limit)} :
          Apply(s, [Op("setLimit", <<>>, s, "done", -1) EXCEPT !.limit = limit])
    /\ UNCHANGED storage_frags

\* The storage is asked once for the metadata and once for every fragment
\* that has cached chunks.
CachedFrags(t) ==
  {FragOf(k) : k \in {c \in cached_chunks_ \cup DOMAIN file_buffers : get_table_key(c) = t}}

Refresh(t, evict, env) ==
  /\ ~aborted
  /\ evict => env = NoEnv(Cardinality(CachedFrags(t)))
  /\ \E r \in {refreshTable(Cur, storage_frags, t, evict, env)} :
        Apply(r.s, [Op(IF evict THEN "refreshTableEvict" ELSE "refreshTable",
                       t, r.s, r.phase, r.go_wall)
                      EXCEPT !.cleared = r.cleared, !.cause = r.cause])
  /\ UNCHANGED storage_frags

\* refreshTable over a storage that answers within half a second.
RefreshTable ==
  \E t \in ForeignTables, evict \in BOOLEAN :
    \E env \in Envs(Cardinality(CachedFrags(t)), {ShortTime}) : Refresh(t, evict, env)

\* refreshTable over a storage that is slow for some fragments.
SlowRefreshTable ==
  \E t \in ForeignTables :
    \E env \in Envs(Cardinality(CachedFrags(t)), {ShortTime, LongTime}) :
      /\ env.fail = 0
      /\ env.psize = 1
      /\ Refresh(t, FALSE, env)

\* refreshChunksInCacheByFragment is called with chunk keys of a table, in the
\* order of getCachedChunksForKeyPrefix, over a storage that is slow for some
\* fragments or fails.
RefreshChunksInCacheByFragment ==
  \E t \in ForeignTables, start_frag_id \in 0..MaxFrag :
    /\ ~aborted
    /\ start_frag_id < storage_frags[t]
    /\ \E keys \in SUBSET KeysOfFrags(t, storage_frags[t]) :
         /\ keys # {}
         /\ \E env \in Envs(storage_frags[t], {ShortTime, LongTime}) :
              /\ env.psize = 1
              /\ env.fail # 1
              /\ \A n \in DOMAIN env.durs :
                   n > Cardinality({FragOf(k) : k \in keys}) =>
                     env.fail # n + 1 /\ env.durs[n] = ShortTime
              /\ \E a \in {RefreshedFragments(Cur, SortKeys(keys), start_frag_id, env)} :
                   \E r \in {CacheRefreshedChunks(a)} :
                     Apply(r.s, [Op("refreshChunksInCacheByFragment", t, r.s,
                                    IF a.s.err = "none" THEN "handed" ELSE "thrown",
                                    r.go_wall)
                                   EXCEPT !.batches = a.batches,
                                          !.to_cache = a.to_cache,
                                          !.stopped = a.stopped])
    /\ UNCHANGED storage_frags

\* The foreign storage changes: a table gets new fragments.
StorageChange ==
  \E t \in ForeignTables, n \in 0..MaxFrag :
    /\ ~aborted
    /\ n > storage_frags[t]
    /\ storage_frags' = [storage_frags EXCEPT ![t] = n]
    /\ last_op' = Quiet("storage", t)
    /\ UNCHANGED <<touch_order, insert_run>>
    /\ UNCHANGED <<cached_chunks_, cached_metadata_, eviction_tracker_map_,
                   max_pages_per_table_, max_cached_bytes_, num_chunks_added_,
                   num_metadata_added_, file_buffers, data_wrapper_map_,
                   wrapper_files, aborted>>
    /\ UNCHANGED noncachevars

\* A clean shutdown and a new ForeignStorageCache over the same directory.
Restart ==
  /\ ~aborted
  /\ cached_chunks_' = {}
  /\ cached_metadata_' = {}
  /\ eviction_tracker_map_' = EmptyFun
  /\ num_chunks_added_' = 0
  /\ num_metadata_added_' = 0
  /\ data_wrapper_map_' = {}
  /\ last_op' = Quiet("restart", <<>>)
  /\ touch_order' = <<>>
  /\ insert_run' = EmptyRun
  /\ UNCHANGED <<max_pages_per_table_, max_cached_bytes_, file_buffers, wrapper_files,
                 storage_frags, aborted>>
  /\ UNCHANGED noncachevars

\* A new ForeignStorageCache over the directory of s: the files stay, the
\* sets, the trackers, the counters and the data wrappers are gone.
NewInstance(s) ==
  [s EXCEPT !.chunks = {}, !.meta = {}, !.trk = EmptyFun, !.nca = 0, !.nma = 0,
            !.wr = {}]

\* A clean shutdown, a new ForeignStorageCache over the same directory, and
\* recoverCacheForTable as the first call on it.
RecoverAfterRestart ==
  \E t \in ForeignTables :
    /\ ~aborted
    /\ \E r \in {recoverCacheForTable(NewInstance(Cur), t)} :
          Apply(r.s, [Op("recoverAfterRestart", t, r.s, "done", -1)
                        EXCEPT !.res = IF r.s.err # "none" THEN r.s.err
                                       ELSE IF r.found THEN "true" ELSE "false"])
    /\ UNCHANGED storage_frags

\* ------------------------ the threads inside getCachedChunkIfExists
\* The second lock scope of getCachedChunkIfExists, under the write_lock:
\* the chunk is touched when its table has a tracker, and the buffer of the
\* file manager is returned; [s, found, buf].
touchAndGetBuffer(s, key) ==
  LET t == get_table_key(key)
      s0 == [s EXCEPT !.log = Append(@, Touched(key))]
      s1 == IF t \in DOMAIN s.trk
              THEN [s0 EXCEPT !.trk[t].eviction_alg_ = touchChunk(@, key)]
              ELSE s0
  IN IF isBufferOnDevice(s.bufs, key)
       THEN [s |-> s1, found |-> TRUE, buf |-> s1.bufs[key]]
       ELSE [s |-> Fail(s1, "CHECK"), found |-> FALSE, buf |-> createBuffer]

\* What a step of getCachedChunkIfExists leaves alone when it changes
\* nothing of the cache.
GetFrame ==
  /\ UNCHANGED <<cachevars, joinvars, buildvars, lockvars>>
  /\ UNCHANGED <<temp_chunk_buffer_map_, temp_op, temp_calls>>

\* A thread calls getCachedChunkIfExists(chunk_key).
GetCall ==
  \E th \in FetchThreads, key \in KnownKeys :
    /\ ~aborted
    /\ get_calls[th].pc = "idle"
    /\ get_calls[th].calls < MaxCalls
    /\ get_calls' = [get_calls EXCEPT ![th] =
         [IdleGetCall(@.calls + 1) EXCEPT !.pc = "find", !.key = key]]
    /\ GetFrame

\* The first lock scope, under the read_lock: nullptr for a key that is not
\* in cached_chunks_.
GetFind ==
  \E th \in FetchThreads :
    /\ ~aborted
    /\ get_calls[th].pc = "find"
    /\ get_calls' = [get_calls EXCEPT ![th] =
         IF @.key \in cached_chunks_
           THEN [@ EXCEPT !.pc = "touch"]
           ELSE [@ EXCEPT !.pc = "idle", !.res = "nullptr"]]
    /\ GetFrame

\* The second lock scope, under the write_lock.
GetTouch ==
  \E th \in FetchThreads :
    /\ ~aborted
    /\ get_calls[th].pc = "touch"
    /\ \E r \in {touchAndGetBuffer(Cur, get_calls[th].key)} :
         /\ eviction_tracker_map_' = r.s.trk
         /\ aborted' = (r.s.err = "CHECK")
         /\ last_op' = [Op("getCachedChunkIfExists", get_calls[th].key, r.s, "done", -1)
                          EXCEPT !.res = IF r.found THEN "none" ELSE r.s.err]
         /\ touch_order' = SelectSeq(Replay(touch_order, r.s.log, 1),
                                     LAMBDA k : k \in cached_chunks_)
         /\ insert_run' = NextRun(r.s, last_op')
         /\ get_calls' = [get_calls EXCEPT ![th] =
              [@ EXCEPT !.pc = "idle",
                        !.res = IF r.found THEN "buffer" ELSE r.s.err,
                        !.cached_at_touch = get_calls[th].key \in cached_chunks_]]
    /\ UNCHANGED <<cached_chunks_, cached_metadata_, max_pages_per_table_,
                   max_cached_bytes_, num_chunks_added_, num_metadata_added_,
                   file_buffers, data_wrapper_map_, wrapper_files, storage_frags>>
    /\ UNCHANGED <<joinvars, buildvars, lockvars>>
    /\ UNCHANGED <<temp_chunk_buffer_map_, temp_op, temp_calls>>

\* getCachedChunkIfExists in threads, next to the operations of other
\* threads that hold chunks_mutex_ from their first to their last step.
NextGetThreads ==
  \/ GetCall
  \/ GetFind
  \/ GetTouch
  \/ RecoverCacheForTable
  \/ CacheChunk
  \/ CacheMetadataVec
  \/ ClearForTablePrefix

\* One table of fixed length with two fragments.
InitGetThreads ==
  /\ InitCache(FileSize + 1)
  /\ InitJoin
  /\ InitTemp
  /\ InitBuild
  /\ InitLocks
  /\ storage_frags = [t \in {x \in FixedLengthTables : ~isAppendMode(x)} |-> 2]

SpecGetThreads == InitGetThreads /\ [][NextGetThreads]_vars

\* The operations of ForeignStorageCache.
Next ==
  \/ CacheChunk
  \/ CacheMetadataVec
  \/ GetCachedChunkIfExists
  \/ DeleteBufferIfExists
  \/ RecoverCacheForTable
  \/ ClearForTablePrefix
  \/ SetLimit

Spec == Init /\ [][Next]_vars

SpecLru == InitLru /\ [][Next]_vars

\* The operations of CachingForeignStorageMgr and of its callers.
NextMgr ==
  \/ GetChunkMetadataVecForKeyPrefix
  \/ CacheMetadataVec
  \/ FetchBuffer
  \/ GetCachedChunkIfExists
  \/ RefreshTable
  \/ StorageChange
  \/ Restart

SpecMgr == InitMgr /\ [][NextMgr]_vars

\* The refresh of one table of MaxFrag + 1 fragments over a slow storage.
NextDeadline ==
  \/ CacheMetadataVec
  \/ FetchBuffer
  \/ SlowRefreshTable
  \/ Restart

SpecDeadline == InitLru /\ [][NextDeadline]_vars

\* The cache of one file over one table of one fragment, filled by fetches
\* and by cacheChunk, shut down and recovered.
InitRecover ==
  /\ InitCache(FileSize)
  /\ InitJoin
  /\ InitTemp
  /\ InitBuild
  /\ InitLocks
  /\ \E t \in Tables : storage_frags = [x \in {t} |-> 1]

NextRecover ==
  \/ CacheMetadataVec
  \/ FetchBuffer
  \/ CacheChunk
  \/ DeleteBufferIfExists
  \/ RecoverAfterRestart

SpecRecover == InitRecover /\ [][NextRecover]_vars

\* The re-caching of the chunks of one table, of MaxFrag fragments with a
\* column of variable length or of MaxFrag + 1 fragments with one of fixed
\* length, after its metadata was cached.
InitRefresh ==
  /\ InitCache(FileSize + 1)
  /\ InitJoin
  /\ InitTemp
  /\ InitBuild
  /\ InitLocks
  /\ \E t \in {<<1, 2>>, <<1, 3>>} :
       storage_frags = [x \in {t} |-> IF t \in FixedLengthTables THEN MaxFrag + 1
                                                                ELSE MaxFrag]

NextRefresh ==
  \/ CacheMetadataVec
  \/ RefreshChunksInCacheByFragment
  \/ ClearForTablePrefix

SpecRefresh == InitRefresh /\ [][NextRefresh]_vars

\* The keys and the tables that the concurrent callers of
\* putHashTableOnCpuToCache pass.
PutKeys ==
  {HashTableCacheKey(Len(InnerRows(t)), cache_key_chunks(t), "kEQ") : t \in {-1, 1, 2}}

PutTables ==
  {[layout |-> "OneToOne", entry_count |-> 4], [layout |-> "OneToMany", entry_count |-> 2]}

\* putHashTableOnCpuToCache, before the mutex: a key of a temporary table
\* returns at once.
PutCall ==
  \E th \in JoinThreads, key \in PutKeys, hash_table \in PutTables :
    /\ put_calls[th].pc = "idle"
    /\ IF HasTemporaryTable(key.chunk_keys)
         THEN /\ join_op' = [JoinQuiet("put") EXCEPT
                               !.key = key, !.table = hash_table, !.res = "skipped",
                               !.len_before = Len(hash_table_cache_)]
              /\ UNCHANGED put_calls
         ELSE /\ put_calls' = [put_calls EXCEPT
                                 ![th] = [pc |-> "lock", key |-> key,
                                          table |-> hash_table, at |-> 0]]
              /\ join_op' = JoinQuiet("call")
    /\ UNCHANGED <<nonjoinvars, hash_type_cache_, hash_table_cache_,
                   hash_table_cache_mutex_, last_put>>

\* putHashTableOnCpuToCache without the lock on hash_table_cache_mutex_.
PutLock_NoMutex ==
  \E th \in JoinThreads :
    /\ put_calls[th].pc = "lock"
    /\ put_calls' = [put_calls EXCEPT ![th].pc = "scan"]
    /\ join_op' = JoinQuiet("lock")
    /\ UNCHANGED <<nonjoinvars, hash_type_cache_, hash_table_cache_,
                   hash_table_cache_mutex_, last_put>>

\* std::lock_guard<std::mutex> hash_table_cache_lock(hash_table_cache_mutex_);
PutLock ==
  \E th \in JoinThreads :
    /\ put_calls[th].pc = "lock"
    /\ hash_table_cache_mutex_ = 0
    /\ hash_table_cache_mutex_' = th
    /\ put_calls' = [put_calls EXCEPT ![th].pc = "scan"]
    /\ join_op' = JoinQuiet("lock")
    /\ UNCHANGED <<nonjoinvars, hash_type_cache_, hash_table_cache_, last_put>>

\* putHashTableOnCpuToCache, the loop over hash_table_cache_.
PutScan ==
  \E th \in JoinThreads :
    /\ put_calls[th].pc = "scan"
    /\ put_calls' = [put_calls EXCEPT
                       ![th].pc = "store",
                       ![th].at = FirstEntry(hash_table_cache_, put_calls[th].key)]
    /\ join_op' = JoinQuiet("scan")
    /\ UNCHANGED <<nonjoinvars, hash_type_cache_, hash_table_cache_,
                   hash_table_cache_mutex_, last_put>>

\* putHashTableOnCpuToCache, the assignment to the entry found or the
\* emplace_back, and the return, which releases the mutex.
PutStore ==
  \E th \in JoinThreads :
    /\ put_calls[th].pc = "store"
    /\ hash_table_cache_' =
         IF put_calls[th].at # 0
           THEN [hash_table_cache_ EXCEPT ![put_calls[th].at].table = put_calls[th].table]
           ELSE Append(hash_table_cache_,
                       [key |-> put_calls[th].key, table |-> put_calls[th].table])
    /\ hash_table_cache_mutex_' =
         IF hash_table_cache_mutex_ = th THEN 0 ELSE hash_table_cache_mutex_
    /\ last_put' = Stored(last_put, put_calls[th].key, put_calls[th].table)
    /\ join_op' = [JoinQuiet("put") EXCEPT
                     !.key = put_calls[th].key, !.table = put_calls[th].table,
                     !.res = "stored",
                     !.existed = put_calls[th].at # 0,
                     !.len_before = Len(hash_table_cache_)]
    /\ put_calls' = [put_calls EXCEPT ![th] = IdleCall]
    /\ UNCHANGED <<nonjoinvars, hash_type_cache_>>

\* initHashTableOnCpuFromCache, called by a query on its own.
LookupHashTable ==
  \E key \in PutKeys :
    /\ hash_table_cache_mutex_ = 0
    /\ join_op' = [JoinQuiet("lookup") EXCEPT
                     !.key = key,
                     !.table = initHashTableOnCpuFromCache(hash_table_cache_, key)]
    /\ UNCHANGED <<nonjoinvars, hash_type_cache_, hash_table_cache_,
                   hash_table_cache_mutex_, put_calls, last_put>>

\* ------------------------- initHashTableForDevice, the section on the CPU
BuildKeyOf(inst) ==
  HashTableCacheKey(Len(InnerRows(InnerTableOf(inst))),
                    cache_key_chunks(InnerTableOf(inst)), "kEQ")

\* A thread is between taking the lock_guard and releasing it.
InCpuSection(th) == build_calls[th].pc \in {"lookup", "build", "put", "unlock"}

\* reifyForDevice, run by std::async for a device of a join hash table,
\* calls initHashTableForDevice.
BuildCall ==
  \E th \in JoinThreads, inst \in JoinHashTables :
    /\ build_calls[th].pc = "idle"
    /\ build_calls' = [build_calls EXCEPT ![th] = [IdleBuild EXCEPT !.pc = "lock",
                                                                    !.inst = inst]]
    /\ UNCHANGED <<cachevars, tempvars, lockvars, joinvars, cpu_hash_table_buff_mutex_>>

\* Mutant: the section is entered without the mutex.
BuildLock_NoMutex ==
  \E th \in JoinThreads :
    /\ build_calls[th].pc = "lock"
    /\ build_calls' = [build_calls EXCEPT ![th].pc = "lookup"]
    /\ UNCHANGED <<cachevars, tempvars, lockvars, joinvars, cpu_hash_table_buff_mutex_>>

\* std::lock_guard<std::mutex> cpu_hash_table_buff_lock(cpu_hash_table_buff_mutex_);
BuildLock ==
  \E th \in JoinThreads :
    /\ build_calls[th].pc = "lock"
    /\ cpu_hash_table_buff_mutex_[build_calls[th].inst] = 0
    /\ cpu_hash_table_buff_mutex_' =
         [cpu_hash_table_buff_mutex_ EXCEPT ![build_calls[th].inst] = th]
    /\ build_calls' = [build_calls EXCEPT ![th].pc = "lookup"]
    /\ UNCHANGED <<cachevars, tempvars, lockvars, joinvars>>

\* auto hash_table = initHashTableOnCpuFromCache(cache_key);
BuildLookup ==
  \E th \in JoinThreads :
    /\ build_calls[th].pc = "lookup"
    /\ hash_table_cache_mutex_ = 0
    /\ \E hash_table \in {initHashTableOnCpuFromCache(hash_table_cache_,
                                                      BuildKeyOf(build_calls[th].inst))} :
         build_calls' = [build_calls EXCEPT
                           ![th].pc = IF hash_table # NullTable THEN "unlock" ELSE "build",
                           ![th].table = hash_table]
    /\ UNCHANGED <<cachevars, tempvars, lockvars, joinvars, cpu_hash_table_buff_mutex_>>

\* err = builder.initHashTableOnCpu(...): the table is built, or not.
BuildOnCpu ==
  \E th \in JoinThreads, err \in BOOLEAN, hash_table \in PutTables :
    /\ build_calls[th].pc = "build"
    /\ build_calls' = [build_calls EXCEPT
                         ![th].pc = IF ~err /\ InnerTableOf(build_calls[th].inst) > 0
                                      THEN "put" ELSE "unlock",
                         ![th].table = IF err THEN NullTable ELSE hash_table]
    /\ UNCHANGED <<cachevars, tempvars, lockvars, joinvars, cpu_hash_table_buff_mutex_>>

\* putHashTableOnCpuToCache(cache_key, hash_tables_for_device_[device_id]);
BuildPut ==
  \E th \in JoinThreads :
    /\ build_calls[th].pc = "put"
    /\ hash_table_cache_mutex_ = 0
    /\ hash_table_cache_' =
         putHashTableOnCpuToCache(hash_table_cache_, BuildKeyOf(build_calls[th].inst),
                                  build_calls[th].table)
    /\ last_put' = Stored(last_put, BuildKeyOf(build_calls[th].inst), build_calls[th].table)
    /\ build_calls' = [build_calls EXCEPT ![th].pc = "unlock"]
    /\ UNCHANGED <<cachevars, tempvars, lockvars, hash_type_cache_, hash_table_cache_mutex_,
                   put_calls, join_op, cpu_hash_table_buff_mutex_>>

\* The end of the block: the lock_guard releases the mutex.
BuildUnlock ==
  \E th \in JoinThreads :
    /\ build_calls[th].pc = "unlock"
    /\ cpu_hash_table_buff_mutex_' =
         [cpu_hash_table_buff_mutex_ EXCEPT
            ![build_calls[th].inst] = IF @ = th THEN 0 ELSE @]
    /\ build_calls' = [build_calls EXCEPT ![th] = IdleBuild]
    /\ UNCHANGED <<cachevars, tempvars, lockvars, joinvars>>

\* The join hash tables of the queries of one process.
InitJoinTables ==
  /\ InitCache(FileSize)
  /\ storage_frags = EmptyFun
  /\ InitJoin
  /\ InitTemp
  /\ InitBuild
  /\ InitLocks

NextJoin ==
  \/ GetInstance
  \/ LookupHashTable

SpecJoin == InitJoinTables /\ [][NextJoin]_vars

\* The concurrent callers of putHashTableOnCpuToCache.
NextPut ==
  \/ PutCall
  \/ PutLock
  \/ PutScan
  \/ PutStore
  \/ LookupHashTable

SpecPut == InitJoinTables /\ [][NextPut]_vars

\* The threads of the devices of several join hash tables on the CPU.
NextBuild ==
  \/ BuildCall
  \/ BuildLock
  \/ BuildLookup
  \/ BuildOnCpu
  \/ BuildPut
  \/ BuildUnlock

SpecBuild == InitJoinTables /\ [][NextBuild]_vars

\* The threads that call the operations of one ForeignStorageCache.
CallOperation ==
  \E th \in CacheThreads :
    LockCall(th) /\ UNCHANGED <<cachevars, tempvars, buildvars, joinvars>>

TakeWriteLock ==
  \E th \in CacheThreads :
    LockExclusive(th) /\ UNCHANGED <<cachevars, tempvars, buildvars, joinvars>>

TakeReadLock ==
  \E th \in CacheThreads :
    LockSharedStep(th) /\ UNCHANGED <<cachevars, tempvars, buildvars, joinvars>>

ReleaseLock ==
  \E th \in CacheThreads :
    UnlockStep(th) /\ UNCHANGED <<cachevars, tempvars, buildvars, joinvars>>

AccessShared ==
  \E th \in CacheThreads :
    AccessStep(th) /\ UNCHANGED <<cachevars, tempvars, buildvars, joinvars>>

ReturnEarly ==
  \E th \in CacheThreads :
    ReturnStep(th) /\ UNCHANGED <<cachevars, tempvars, buildvars, joinvars>>

NextLocks ==
  \/ CallOperation
  \/ TakeWriteLock
  \/ TakeReadLock
  \/ ReleaseLock
  \/ AccessShared
  \/ ReturnEarly

SpecLocks == InitJoinTables /\ [][NextLocks]_vars

\* A thread that can take its next step inside an operation takes it: the
\* operating system schedules every thread.
SpecLocksFair ==
  /\ InitJoinTables
  /\ [][NextLocks]_vars
  /\ \A th \in CacheThreads :
       WF_vars(LockStep(th) /\ UNCHANGED <<cachevars, tempvars, buildvars, joinvars>>)

\* ------------------------------------------------------------ properties
\* A state at rest: the process has not died on a CHECK.
AtRest == ~aborted

ChunksOf(chunks, t) == {k \in chunks : get_table_key(k) = t}

\* C1: at rest, after any sequence of cache operations, every table tracker
\* has num_pages_ <= max_pages_per_table_.
C1_NumPagesWithinLimit ==
  AtRest =>
    \A t \in DOMAIN eviction_tracker_map_ :
      eviction_tracker_map_[t].num_pages_ <= max_pages_per_table_

IsIndexKey(k) == is_varlen_key(k) /\ ~is_varlen_data_key(k)

RECURSIVE EvictionsInTouchOrder(_, _, _)
EvictionsInTouchOrder(order, log, i) ==
  IF i > Len(log) THEN TRUE
  ELSE LET k == log[i].k
           same == SelectSeq(order, LAMBDA x : get_table_key(x) = get_table_key(k))
       IN /\ log[i].e = "evict" => (same # <<>> /\ same[Len(same)] = k)
          /\ EvictionsInTouchOrder(Replay(order, <<log[i]>>, 1), log, i + 1)

\* After more than P one-page insertions in a row the cache holds the P most
\* recently inserted chunks, on P pages.
RunKeepsMostRecent ==
  (insert_run.ok /\ Len(insert_run.keys) > max_pages_per_table_) =>
    LET n == Len(insert_run.keys)
        t == get_table_key(insert_run.keys[1])
    IN /\ cached_chunks_ = {insert_run.keys[i] : i \in (n - max_pages_per_table_ + 1)..n}
       /\ eviction_tracker_map_[t].num_pages_ = max_pages_per_table_

C5_CacheThenGet ==
  (/\ last_op.op = "cacheChunk"
   /\ last_op.buf.size <= max_pages_per_table_ * DefaultPageSize) =>
    /\ AtRest
    /\ LET r == getCachedChunkIfExists(Cur, last_op.key)
       IN /\ r.found
          /\ r.buf.size = last_op.buf.size
          /\ r.buf.data = last_op.buf.data

DataKeyOf(k) == <<k[1], k[2], k[3], k[4], 1>>

\* C6: at rest the data key [db, table, column, fragment, 1] of a variable
\* length chunk is in cached_chunks_ if and only if its index sibling
\* [db, table, column, fragment, 2] is.
C6_VarlenSiblings ==
  AtRest =>
    \A k \in cached_chunks_ :
      is_varlen_key(k) => {DataKeyOf(k), IndexKeyOf(k)} \subseteq cached_chunks_

RefreshedNonAppend(op) == op.op = "refreshTable" /\ ~isAppendMode(op.key)

RefreshedAppend(op) == op.op = "refreshTable" /\ isAppendMode(op.key)

\* C7 as stated: when the metadata scan of a non-append refreshTable(T, false)
\* fails, cached_chunks_ and cached_metadata_ restricted to T are what they
\* were before the call; the clear step runs only after a successful scan.
C7_ScanFailureLeavesCache ==
  [][RefreshedNonAppend(last_op') =>
       /\ last_op'.cleared => last_op'.phase \notin {"recover", "scan"}
       /\ last_op'.phase = "scan" =>
            /\ ChunksOf(cached_chunks_', last_op'.key) = ChunksOf(cached_chunks_, last_op'.key)
            /\ ChunksOf(cached_metadata_', last_op'.key)
                 = ChunksOf(cached_metadata_, last_op'.key)]_vars

\* The cache as refreshTableInCache sees it after its first step: a table
\* without cached metadata has been recovered from disk.
AfterRecovery(t) ==
  IF hasCachedMetadataForKeyPrefix(Cur, t) THEN Cur ELSE recoverCacheForTable(Cur, t).s

\* C7, amended: when the metadata scan of a non-append refreshTable(T, false)
\* fails, the error is raised before clearForTablePrefix runs: if T had
\* cached metadata before the call, cached_chunks_, cached_metadata_ and the
\* files of the cache are what they were before the call, and otherwise
\* they are what recoverCacheForTable(T) makes of them; the clear step runs
\* only after a successful scan.
C7_ScanFailureLeavesRecoveredCache ==
  [][RefreshedNonAppend(last_op') =>
       /\ last_op'.cleared => last_op'.phase \notin {"recover", "scan"}
       /\ last_op'.phase = "scan" =>
            /\ file_buffers' = AfterRecovery(last_op'.key).bufs
            /\ cached_chunks_' = AfterRecovery(last_op'.key).chunks
            /\ cached_metadata_' = AfterRecovery(last_op'.key).meta
            /\ hasCachedMetadataForKeyPrefix(Cur, last_op'.key) =>
                 /\ file_buffers' = file_buffers
                 /\ cached_chunks_' = cached_chunks_
                 /\ cached_metadata_' = cached_metadata_]_vars

\* The scan of a non-append refresh has failed with chunks of the table cached.
C7_Witness ==
  /\ RefreshedNonAppend(last_op)
  /\ last_op.phase = "scan"
  /\ last_op.res = "runtime_error"
  /\ ChunksOf(cached_chunks_, last_op.key) # {}

\* C8 as stated: refreshTable raises PostEvictionRefreshException exactly when
\* the table's cached state had been cleared and the re-caching then failed
\* with a runtime error.
C8_PostEvictionOnlyAfterClear ==
  last_op.op = "refreshTable" =>
    (last_op.res = "PostEvictionRefreshException"
       <=> (last_op.cleared /\ last_op.phase = "recache" /\ IsRuntimeError(last_op.cause)))

\* C8, amended: refreshTable raises PostEvictionRefreshException exactly when
\* the metadata scan had succeeded and the re-caching (of the metadata or of
\* the chunks) then failed with a runtime error: in a non-append refresh
\* after the table's cached state was cleared, in an append refresh without
\* any clear, where chunks of fragments below the highest cached fragment may
\* still be cached.
C8_PostEvictionAfterRecacheFailure ==
  last_op.op = "refreshTable" =>
    /\ last_op.res = "PostEvictionRefreshException"
         <=> (last_op.phase = "recache" /\ IsRuntimeError(last_op.cause))
    /\ last_op.res = "PostEvictionRefreshException"
         => (last_op.cleared <=> ~isAppendMode(last_op.key))

\* An append refresh has raised PostEvictionRefreshException while chunks of
\* the table are cached.
C8_Witness ==
  /\ RefreshedAppend(last_op)
  /\ last_op.res = "PostEvictionRefreshException"
  /\ ChunksOf(cached_chunks_, last_op.key) # {}

\* The keys of the storage's metadata entries of table t from fragment L on.
StorageKeysFrom(t, L) ==
  {k \in {StorageMetadata(storage_frags, t)[i].key :
            i \in 1..Len(StorageMetadata(storage_frags, t))} : FragOf(k) >= L}

EvictedIn(log) == {log[i].k : i \in {j \in 1..Len(log) : log[j].e = "evict"}}

TouchedIn(log) == {log[i].k : i \in {j \in 1..Len(log) : log[j].e = "touch"}}

\* C9 as stated: in an append refreshTable(T, false) with L the highest
\* fragment with cached metadata, metadata and chunks of fragments < L are
\* unchanged, the storage's metadata entries of fragments >= L are cached and
\* num_metadata_added_ grows by their number, and the chunks of fragments >= L
\* that were cached are repopulated and cached again.
C9_AppendRefreshKeepsAndRecaches ==
  [][(RefreshedAppend(last_op') /\ last_op'.res = "none") =>
       LET T == last_op'.key
           pre == AfterRecovery(T)
           L == getHighestCachedFragId(pre, T)
           low == {k \in KeysOfFrags(T, MaxFrag + 1) : FragOf(k) < L}
       IN /\ \A k \in low :
               /\ k \in cached_chunks_' <=> k \in pre.chunks
               /\ k \in cached_metadata_' <=> k \in pre.meta
          /\ StorageKeysFrom(T, L) \subseteq cached_metadata_'
          /\ num_metadata_added_' = num_metadata_added_ + Cardinality(StorageKeysFrom(T, L))
          /\ \A k \in ChunksOf(pre.chunks, T) \ low :
               /\ k \in cached_chunks_'
               /\ file_buffers'[k].data = StorageData]_vars

\* C9, amended: in an append refreshTable(T, false) that returns, with L the
\* highest fragment with cached metadata: the cached metadata of fragments
\* < L is unchanged, and a chunk of a fragment < L is cached afterwards only
\* if it was before, then with its buffer unchanged, and is dropped only by
\* an LRU eviction of the re-caching; the storage's metadata entries of
\* fragments >= L are cached and num_metadata_added_ grows by their number;
\* every chunk of a fragment >= L that is cached afterwards was cached before
\* and holds the storage's data, and a chunk with metadata that was cached
\* before is cached again unless it exceeds max_pages_per_table_ or the LRU
\* evicted it during the re-caching.
C9_AppendRefreshWithinBudget ==
  [][(RefreshedAppend(last_op') /\ last_op'.res = "none") =>
       LET T == last_op'.key
           pre == AfterRecovery(T)
           L == getHighestCachedFragId(pre, T)
           low == {k \in KeysOfFrags(T, MaxFrag + 1) : FragOf(k) < L}
           evicted == EvictedIn(last_op'.log)
       IN /\ \A k \in low :
               /\ k \in cached_metadata_' <=> k \in pre.meta
               /\ k \in cached_chunks_' =>
                    k \in pre.chunks /\ file_buffers'[k] = pre.bufs[k]
               /\ k \in pre.chunks \ cached_chunks_' => k \in evicted
          /\ StorageKeysFrom(T, L) \subseteq cached_metadata_'
          /\ num_metadata_added_' = num_metadata_added_ + Cardinality(StorageKeysFrom(T, L))
          /\ \A k \in ChunksOf(cached_chunks_', T) \ low :
               /\ file_buffers'[k].data = StorageData
               /\ k \in pre.chunks \/ (IsIndexKey(k) /\ DataKeyOf(k) \in pre.chunks)
          /\ \A k \in (ChunksOf(pre.chunks, T) \cap pre.meta) \ low :
               \/ k \in cached_chunks_'
               \/ k \in evicted
               \/ PagesFor(file_buffers'[k].size) > max_pages_per_table_]_vars

\* An append refresh has returned: it has re-cached a chunk of a fragment
\* >= 1 and has left a cached chunk of fragment 0 alone.
C9_Witness ==
  /\ RefreshedAppend(last_op)
  /\ last_op.res = "none"
  /\ \E k \in TouchedIn(last_op.log) : FragOf(k) >= 1 /\ k \in cached_chunks_
  /\ \E k \in ChunksOf(cached_chunks_, last_op.key) \ TouchedIn(last_op.log) : FragOf(k) = 0

\* C10: once MAX_REFRESH_TIME_IN_SECONDS of wall-clock time have passed since
\* refreshChunksInCacheByFragment started, the loop stops at the next fragment
\* boundary: whenever the time check lets the loop go on to a later fragment,
\* less than MAX_REFRESH_TIME_IN_SECONDS have passed.
C10_WallClockDeadline ==
  last_op.go_wall < MAX_REFRESH_TIME_IN_SECONDS * TicksPerSecond

\* C11: after clearForTablePrefix(t) has returned (also as refreshTable(t,
\* evict = true)) no key of t is in cached_chunks_ or cached_metadata_, no key
\* of t is in the LRU queue of t, and the tracker of t has num_pages_ = 0.
C11_ClearDropsTable ==
  (last_op.op \in {"clearForTablePrefix", "refreshTableEvict"} /\ last_op.res = "none") =>
    /\ ChunksOf(cached_chunks_, last_op.key) = {}
    /\ ChunksOf(cached_metadata_, last_op.key) = {}
    /\ last_op.key \in DOMAIN eviction_tracker_map_ =>
         /\ eviction_tracker_map_[last_op.key].eviction_alg_ = <<>>
         /\ eviction_tracker_map_[last_op.key].num_pages_ = 0

\* C12: setLimit(limit) with limit < page_size * MAX_FILE_N_PAGES fails with
\* CacheTooSmallException and leaves max_pages_per_table_, max_cached_bytes_,
\* cached_chunks_, cached_metadata_ and every tracker unchanged.
C12_TooSmallLimitRejected ==
  [][(last_op'.op = "setLimit" /\ last_op'.limit < DefaultPageSize * MAX_FILE_N_PAGES) =>
       /\ last_op'.res = "CacheTooSmallException"
       /\ UNCHANGED <<max_pages_per_table_, max_cached_bytes_, cached_chunks_,
                      cached_metadata_, eviction_tracker_map_, file_buffers>>]_vars

\* A limit below one file was rejected while chunks were cached.
C12_Witness ==
  /\ last_op.op = "setLimit"
  /\ last_op.limit < FileSize
  /\ last_op.res = "CacheTooSmallException"
  /\ cached_chunks_ # {}

\* ceil(limit / (page_size * MAX_FILE_N_PAGES)).
CeilFiles(limit) ==
  CHOOSE n \in 0..limit :
    /\ n * (DefaultPageSize * MAX_FILE_N_PAGES) >= limit
    /\ (n - 1) * (DefaultPageSize * MAX_FILE_N_PAGES) < limit

\* The keys of table t that the log evicts, in order.
EvictedOf(log, t) ==
  SelectSeq(log, LAMBDA x : x.e = "evict" /\ get_table_key(x.k) = t)

\* C13: for limit >= page_size * MAX_FILE_N_PAGES, setLimit(limit) sets
\* max_pages_per_table_ to ceil(limit / file size) * MAX_FILE_N_PAGES and
\* returns with num_pages_ <= max_pages_per_table_ for every tracker, having
\* evicted from a table only its least recently touched chunks and none
\* after the table fitted.
C13_SetLimitEvictsToFit ==
  [][(last_op'.op = "setLimit" /\ last_op'.limit >= DefaultPageSize * MAX_FILE_N_PAGES) =>
       /\ last_op'.res = "none"
       /\ max_pages_per_table_' = CeilFiles(last_op'.limit) * MAX_FILE_N_PAGES
       /\ max_cached_bytes_' = last_op'.limit
       /\ EvictionsInTouchOrder(touch_order, last_op'.log, 1)
       /\ \A u \in DOMAIN eviction_tracker_map_' :
            /\ eviction_tracker_map_'[u].num_pages_ <= max_pages_per_table_'
            /\ EvictedOf(last_op'.log, u) # <<>> =>
                 LET ev == EvictedOf(last_op'.log, u)
                 IN eviction_tracker_map_'[u].num_pages_
                      + file_buffers[ev[Len(ev)].k].pages > max_pages_per_table_']_vars

RecoveredAfterRestart(op) == op.op = "recoverAfterRestart" /\ op.res \in {"true", "false"}

\* C14 as stated: recoverCacheForTable(t) on a new instance over the files of
\* a cleanly shut down instance reproduces the cached_metadata_ keys of t,
\* puts into cached_chunks_ every chunk of t whose file buffer holds pages
\* and no chunk without pages, and returns true iff metadata was recovered.
C14_RecoverReproduces ==
  [][RecoveredAfterRestart(last_op') =>
       LET T == last_op'.key
       IN /\ ChunksOf(cached_metadata_', T) = ChunksOf(cached_metadata_, T)
          /\ \A k \in ChunksOf(DOMAIN file_buffers, T) :
               file_buffers[k].pages > 0 => k \in cached_chunks_'
          /\ \A k \in cached_chunks_' : file_buffers[k].pages > 0
          /\ last_op'.res = "true" <=> ChunksOf(cached_metadata_', T) # {}]_vars

\* ------------------------------------------- properties of the hash join
\* The last operation was a getInstance of an equijoin that preferred
\* OneToOne over an inner table with a duplicated composite key, and it
\* returned a hash table.
EscalatedJoin ==
  /\ join_op.op = "getInstance"
  /\ join_op.optype = "kEQ"
  /\ join_op.preferred = "OneToOne"
  /\ HasDuplicate(InnerRows(join_op.t))
  /\ join_op.res = "ok"

\* C15 as stated: over an inner table with a duplicated composite key,
\* regular or temporary, reify(preferred = OneToOne) ends with a OneToMany
\* table and HashTypeCache::get(chunk_keys) returns (OneToMany, true).
C15_EscalationRecorded ==
  EscalatedJoin =>
    /\ join_op.layout = "OneToMany"
    /\ HashTypeCache_get(hash_type_cache_, cache_key_chunks(join_op.t)) =
         [type |-> "OneToMany", found |-> TRUE]

\* C15, amended: reify(preferred = OneToOne) over a duplicated composite key
\* ends with a OneToMany table; HashTypeCache::get returns (OneToMany, true)
\* when the table id is not negative and the first attempt was not served
\* from hash_table_cache_, and (OneToOne, false) for a temporary table.
C15_EscalationOfCatalogTables ==
  EscalatedJoin =>
    /\ join_op.layout = "OneToMany"
    /\ (join_op.t >= 0 /\ join_op.hit # 1) =>
          HashTypeCache_get(hash_type_cache_, cache_key_chunks(join_op.t)) =
            [type |-> "OneToMany", found |-> TRUE]
    /\ (join_op.t < 0) =>
          HashTypeCache_get(hash_type_cache_, cache_key_chunks(join_op.t)) =
            [type |-> "OneToOne", found |-> FALSE]

\* The OneToOne build of a table of the catalog failed on the duplicated
\* key and the retry built a OneToMany table.
C15_Witness ==
  /\ EscalatedJoin
  /\ join_op.t = 1
  /\ join_op.attempts = <<"OneToOne", "OneToMany">>
  /\ join_op.first_err = "HashJoinFail"
  /\ join_op.built.layout = "OneToMany"

\* The last operation was a getInstance that found no entry for its chunk
\* keys in HashTypeCache and left one.
RecordedLayout ==
  /\ join_op.op = "getInstance"
  /\ ~join_op.found_before
  /\ HashTypeCache_get(hash_type_cache_, cache_key_chunks(join_op.t)).found

\* C16: HashTypeCache holds the last successful layout: an entry K -> L is
\* written only by a reify that built a table of layout L for K; OneToMany
\* is recorded only when a OneToOne build failed on a duplicated key; a
\* reify whose attempts all fail, or whose first attempt fails for another
\* reason, leaves no entry.
C16_OnlySuccessfulLayoutRecorded ==
  RecordedLayout =>
    /\ join_op.res = "ok"
    /\ join_op.layout =
         HashTypeCache_get(hash_type_cache_, cache_key_chunks(join_op.t)).type
    /\ join_op.attempts = <<"OneToOne", "OneToMany">>
    /\ join_op.first_err = "HashJoinFail"
    /\ HasDuplicate(InnerRows(join_op.t))

\* The last operation was a getInstance in which TableMustBeReplicated was
\* raised by the replication constraint check or by the first
\* reifyWithLayout of reify.
ReplicationRaised ==
  /\ join_op.op = "getInstance"
  /\ \/ join_op.first_err = "TableMustBeReplicated"
     \/ join_op.last_err = "TableMustBeReplicated" /\ Len(join_op.attempts) <= 1

\* C17: a TableMustBeReplicated raised during getInstance, by the
\* replication constraint check or by reify, bypasses the retry with
\* OneToMany, causes no write of HashTypeCache and reaches the caller as a
\* runtime error.
C17_ReplicationErrorBypassesRetry ==
  ReplicationRaised =>
    /\ Len(join_op.attempts) <= 1
    /\ ~join_op.set_called
    /\ join_op.res \in {"runtime_error", "TableMustBeReplicated"}

\* C18: no hash table is ever built with more than INT32_MAX entries:
\* getInstance throws TooManyHashEntries before any build, and the entry
\* count that reifyWithLayout computes again for OneToMany is rejected
\* likewise.
C18_EntryCountWithinInt32 ==
  /\ (join_op.op = "getInstance") => join_op.built.entry_count <= INT32_MAX
  /\ (join_op.op = "getInstance" /\ join_op.res = "TooManyHashEntries") =>
        join_op.attempts = <<>> /\ join_op.built = NullTable
  /\ \A i \in DOMAIN hash_table_cache_ :
        hash_table_cache_[i].table.entry_count <= INT32_MAX

\* hash_table_cache_ holds at most one entry per key, and a lookup returns
\* the table that was put last under the key.
OneEntryPerKey ==
  /\ \A i \in DOMAIN hash_table_cache_, j \in DOMAIN hash_table_cache_ :
        hash_table_cache_[i].key = hash_table_cache_[j].key => i = j
  /\ \A key \in DOMAIN last_put :
        initHashTableOnCpuFromCache(hash_table_cache_, key) = last_put[key]
  /\ (join_op.op = "lookup") =>
        join_op.table = IF join_op.key \in DOMAIN last_put THEN last_put[join_op.key]
                        ELSE NullTable

\* A put that stores replaces the table of a key that is in the cache and
\* appends an entry for a key that is not.
PutReplacesOrAppends ==
  (join_op'.op = "put" /\ join_op'.res = "stored") =>
    IF FirstEntry(hash_table_cache_, join_op'.key) # 0
      THEN hash_table_cache_' =
             [hash_table_cache_ EXCEPT
                ![FirstEntry(hash_table_cache_, join_op'.key)].table = join_op'.table]
      ELSE hash_table_cache_' =
             Append(hash_table_cache_, [key |-> join_op'.key, table |-> join_op'.table])

\* C19: hash_table_cache_ holds at most one entry per HashTableCacheKey
\* after any sequence of puts, concurrent puts included: a put on a key
\* that is present replaces its table, a put on a new key appends an entry,
\* and a later lookup with an equal key returns the table put last.
C19_OneEntryPerKey ==
  [](OneEntryPerKey) /\ [][PutReplacesOrAppends]_vars

\* A put replaced the table of its key while the other thread was inside
\* its own put of the same key.
C19_Witness ==
  /\ join_op.op = "put"
  /\ join_op.res = "stored"
  /\ join_op.existed
  /\ join_op.table # NullTable
  /\ \E th \in JoinThreads :
        put_calls[th].pc = "lock" /\ put_calls[th].key = join_op.key

\* C20: hash tables over temporary inputs are never cached: no entry of
\* hash_table_cache_ and no entry of HashTypeCache has a chunk key with a
\* negative table id, and getApproximateTupleCountFromCache returns no
\* count for such a key.
C20_TemporaryTablesNotCached ==
  /\ \A i \in DOMAIN hash_table_cache_ :
        ~HasTemporaryTable(hash_table_cache_[i].key.chunk_keys)
  /\ \A k \in DOMAIN hash_type_cache_ : ~HasTemporaryTable(k)
  /\ \A t \in JoinTables, optype \in JoinOpTypes :
        (t < 0) =>
          ~getApproximateTupleCountFromCache(
              hash_table_cache_,
              HashTableCacheKey(Len(InnerRows(t)), cache_key_chunks(t), optype)).found

\* A getInstance over the temporary table failed to build OneToOne, went
\* through the catch that records OneToMany and built a OneToMany table.
C20_Witness ==
  /\ join_op.op = "getInstance"
  /\ join_op.t < 0
  /\ join_op.res = "ok"
  /\ join_op.set_called
  /\ join_op.built.layout = "OneToMany"

C23_WrapperFilePresent ==
  (/\ ~aborted
   /\ last_op.op \in {"getChunkMetadataVecForKeyPrefix", "refreshTable"}
   /\ last_op.res = "none"
   /\ hasCachedMetadataForKeyPrefix(Cur, last_op.key))
    => last_op.key \in wrapper_files

\* C24: removeTableRelatedDS(db, table) removes the data wrapper of that table
\* and every temp chunk buffer whose key starts with [db, table]; the wrappers
\* and the temp buffers of all other tables are as they were.
C24_RemoveTableRelatedDS ==
  temp_op.op = "removeTableRelatedDS" =>
    /\ data_wrapper_map_ = temp_op.wr0 \ {temp_op.key}
    /\ DOMAIN temp_chunk_buffer_map_ =
         {k \in DOMAIN temp_op.tmp0 : get_table_key(k) # temp_op.key}
    /\ \A k \in DOMAIN temp_chunk_buffer_map_ :
         temp_chunk_buffer_map_[k] = temp_op.tmp0[k]

\* A table with a wrapper and temp buffers was removed while a table of the
\* same id in the next database, and a table of the same database, had a
\* wrapper, and the former temp buffers.
C24_Witness ==
  /\ temp_op.op = "removeTableRelatedDS"
  /\ temp_op.key = <<1, 2>>
  /\ {<<1, 2>>, <<2, 2>>, <<1, 3>>} \subseteq temp_op.wr0
  /\ \E k \in DOMAIN temp_op.tmp0 : get_table_key(k) = <<1, 2>>
  /\ \E k \in DOMAIN temp_chunk_buffer_map_ : get_table_key(k) = <<2, 2>>

\* C30: a fetchBuffer of the manager without a cache that finds a temp buffer
\* for the key hands out its content, removes the entry and leaves the data
\* wrapper alone; otherwise the table has a wrapper afterwards, the wrapper
\* populated the destination and a new temp buffer for every other key of the
\* column in the fragment, and the temp map holds of that column exactly
\* those other keys.  A temp buffer stays until its key is fetched or its
\* table is removed.
C30_UncachedFetchBuffer ==
  /\ [](temp_op.op = "fetchBuffer" /\ temp_op.res = "none" =>
         LET k == temp_op.key
             family == get_keys_set_from_table(k)
         IN IF k \in DOMAIN temp_op.tmp0
              THEN /\ temp_op.dst = temp_op.tmp0[k]
                   /\ temp_chunk_buffer_map_ =
                        [x \in DOMAIN temp_op.tmp0 \ {k} |-> temp_op.tmp0[x]]
                   /\ ~temp_op.scanned
                   /\ temp_op.populated = {}
                   /\ data_wrapper_map_ = temp_op.wr0
              ELSE /\ data_wrapper_map_ = temp_op.wr0 \cup {get_table_key(k)}
                   /\ temp_op.scanned = (get_table_key(k) \notin temp_op.wr0)
                   /\ temp_op.populated = family
                   /\ temp_op.dst = PopulatedBuffer(k)
                   /\ DOMAIN temp_chunk_buffer_map_ =
                        (DOMAIN temp_op.tmp0 \ family) \cup (family \ {k})
                   /\ \A x \in DOMAIN temp_chunk_buffer_map_ :
                        temp_chunk_buffer_map_[x] =
                          IF x \in family THEN PopulatedBuffer(x) ELSE temp_op.tmp0[x])
  /\ [][\A k \in DOMAIN temp_chunk_buffer_map_ :
          k \notin DOMAIN temp_chunk_buffer_map_' =>
            \/ temp_op'.op = "fetchBuffer" /\ temp_op'.key = k
            \/ temp_op'.op = "removeTableRelatedDS" /\ temp_op'.key = get_table_key(k)]_vars

\* The data chunk of a variable length column was fetched from the wrapper,
\* which left a temp buffer for the index chunk, while another fragment had
\* a temp buffer.
C30_Witness ==
  /\ temp_op.op = "fetchBuffer"
  /\ temp_op.res = "none"
  /\ temp_op.key = <<1, 2, 1, 0, 1>>
  /\ temp_op.populated = {<<1, 2, 1, 0, 1>>, <<1, 2, 1, 0, 2>>}
  /\ <<1, 2, 1, 0, 2>> \in DOMAIN temp_chunk_buffer_map_
  /\ <<1, 2, 1, 1, 2>> \in DOMAIN temp_op.tmp0

\* The index chunk was then fetched from its temp buffer.
C30_WitnessTemp ==
  /\ temp_op.op = "fetchBuffer"
  /\ temp_op.key = <<1, 2, 1, 0, 2>>
  /\ temp_op.key \in DOMAIN temp_op.tmp0
  /\ temp_op.dst = PopulatedBuffer(temp_op.key)

\* The pages that the cached chunks among keys hold in the file manager.
RECURSIVE PagesHeld(_, _, _)
PagesHeld(chunks, bufs, keys) ==
  IF keys = {} THEN 0
  ELSE LET k == CHOOSE x \in keys : TRUE
       IN (IF k \in chunks THEN bufs[k].pages ELSE 0) + PagesHeld(chunks, bufs, keys \ {k})

\* C25: after cacheMetadataVec(vec) has returned, every key of vec is in
\* cached_metadata_, neither it nor the index key of a variable length data
\* key is in cached_chunks_ or in an LRU queue, the pages they held are taken
\* off num_pages_ of their table, and num_metadata_added_ has grown by |vec|.
C25_MetadataRefreshInvalidatesData ==
  [][(last_op'.op = "cacheMetadataVec" /\ last_op'.res = "none") =>
       LET vec == last_op'.vec
           inval == Invalidated(vec)
       IN /\ SeqToSet(vec) \subseteq cached_metadata_'
          /\ inval \cap cached_chunks_' = {}
          /\ \A t \in DOMAIN eviction_tracker_map_' :
               inval \cap SeqToSet(eviction_tracker_map_'[t].eviction_alg_) = {}
          /\ DOMAIN eviction_tracker_map_' = DOMAIN eviction_tracker_map_
          /\ \A t \in DOMAIN eviction_tracker_map_ :
               eviction_tracker_map_'[t].num_pages_ =
                 eviction_tracker_map_[t].num_pages_
                   - PagesHeld(cached_chunks_, file_buffers,
                               {k \in inval : get_table_key(k) = t})
          /\ num_metadata_added_' = num_metadata_added_ + Len(vec)]_vars

\* cacheMetadataVec of two fragments of a variable length column has returned
\* and the data chunk and the index chunk of one of them, cached before, are
\* no longer cached.
C25_Witness ==
  /\ last_op.op = "cacheMetadataVec"
  /\ last_op.res = "none"
  /\ Len(last_op.vec) = 2
  /\ \E k \in SeqToSet(last_op.vec) :
       /\ is_varlen_data_key(k)
       /\ {k, IndexKeyOf(k)} \subseteq last_op.held

RECURSIVE Flatten(_)
Flatten(batches) ==
  IF batches = <<>> THEN <<>> ELSE Head(batches) \o Flatten(Tail(batches))

\* C29: every populateChunkBuffers call of refreshChunksInCacheByFragment gets
\* chunk keys of one fragment, and when the loop has ended, at its end or at
\* the time limit, cacheTableChunks gets exactly the keys of those calls.
C29_BatchesByFragment ==
  last_op.op = "refreshChunksInCacheByFragment" =>
    /\ \A i \in 1..Len(last_op.batches) :
         /\ last_op.batches[i] # <<>>
         /\ \A k1, k2 \in SeqToSet(last_op.batches[i]) : FragOf(k1) = FragOf(k2)
    /\ last_op.phase = "handed" => last_op.to_cache = Flatten(last_op.batches)

\* The time limit ended the loop after the chunks of two fragments were
\* populated, with a chunk of a third fragment left.
C29_Witness ==
  /\ last_op.op = "refreshChunksInCacheByFragment"
  /\ last_op.phase = "handed"
  /\ last_op.res = "none"
  /\ last_op.stopped
  /\ Len(last_op.batches) = 2
  /\ SeqToSet(last_op.to_cache) \subseteq cached_chunks_
  /\ \E k \in cached_metadata_ : FragOf(k) = MaxFrag /\ k \notin cached_chunks_

\* The index chunk and the data chunk of a variable length column were
\* populated in one call.
C29_WitnessVarlen ==
  /\ last_op.op = "refreshChunksInCacheByFragment"
  /\ last_op.phase = "handed"
  /\ last_op.batches = << <<IndexKeyOf(<<1, 2, 1, 1, 1>>), <<1, 2, 1, 1, 1>> >> >>
  /\ <<1, 2, 1, 0, 1>> \in cached_metadata_

\* C21 as stated: no two threads are inside the CPU section of
\* initHashTableForDevice at the same time, whether they build the same join
\* hash table or different ones.
C21_OneCpuBuildAtATime ==
  \A th1, th2 \in JoinThreads :
    (th1 # th2 /\ InCpuSection(th1)) => ~InCpuSection(th2)

\* C21, amended: no two threads are inside the CPU section of
\* initHashTableForDevice of the same join hash table at the same time, and the
\* thread inside holds that table's mutex.
C21_OneCpuBuildPerJoinHashTable ==
  /\ \A th1, th2 \in JoinThreads :
       (th1 # th2 /\ InCpuSection(th1) /\ InCpuSection(th2))
         => build_calls[th1].inst # build_calls[th2].inst
  /\ \A th \in JoinThreads :
       InCpuSection(th) => cpu_hash_table_buff_mutex_[build_calls[th].inst] = th

\* A thread builds the table of a join hash table while another thread waits
\* for the mutex of the same join hash table.
C21_Witness ==
  \E th1, th2 \in JoinThreads :
    /\ build_calls[th1].pc = "build"
    /\ build_calls[th2].pc = "lock"
    /\ build_calls[th1].inst = build_calls[th2].inst

\* The mutex that guards a shared collection.
GuardOf(v) == IF v = "cached_metadata_" THEN "metadata_mutex_" ELSE "chunks_mutex_"

\* C28: a thread that writes cached_metadata_ holds metadata_mutex_
\* exclusively, a thread that writes cached_chunks_ or eviction_tracker_map_
\* holds chunks_mutex_ exclusively, and no thread reads a collection while
\* another writes it.
C28_WritesUnderExclusiveLock ==
  /\ \A th \in CacheThreads :
       StepAt(th).do = "write" => MutexOf(GuardOf(StepAt(th).on)).writer = th
  /\ \A th1, th2 \in CacheThreads :
       (th1 # th2 /\ StepAt(th1).do = "write" /\ StepAt(th2).do = "read")
         => StepAt(th1).on # StepAt(th2).on

\* C27: no thread requests metadata_mutex_ while it holds chunks_mutex_, no
\* thread requests a mutex that it holds already, and every operation that a
\* thread has called returns.
C27_NoDeadlock ==
  /\ [](\A th \in CacheThreads :
          StepAt(th).do \in {"lock", "lock_shared"} =>
            /\ ~Holds(th, StepAt(th).on)
            /\ StepAt(th).on = "metadata_mutex_" => ~Holds(th, "chunks_mutex_"))
  /\ \A th \in CacheThreads :
       (lock_calls[th].op # "idle") ~> (lock_calls[th].op = "idle")

\* A thread holds metadata_mutex_ and waits for chunks_mutex_, which is held
\* by a thread inside clearForTablePrefix, which takes metadata_mutex_ later.
C27_Witness ==
  \E th1, th2 \in CacheThreads :
    /\ metadata_mutex_.writer = th1
    /\ StepAt(th1) = Lock("chunks_mutex_")
    /\ chunks_mutex_.writer = th2
    /\ lock_calls[th2].op = "clearForTablePrefix"

\* ------------------------------------------------ properties, fourth part
\* C32: at rest, for every table, num_pages_ of its tracker is the number of
\* pages that the chunks of the table in cached_chunks_ hold, and it has not
\* fallen below zero.
C32_PageAccountingExact ==
  AtRest =>
    \A t \in DOMAIN eviction_tracker_map_ :
      /\ eviction_tracker_map_[t].num_pages_ >= 0
      /\ eviction_tracker_map_[t].num_pages_ =
           PagesHeld(cached_chunks_, file_buffers, ChunksOf(cached_chunks_, t))

\* C36: no operation asks an empty LRU queue for a key to evict, and at rest,
\* whenever num_pages_ of a table plus the pages of a chunk that fits the
\* budget exceeds max_pages_per_table_, the LRU queue of the table holds a
\* key of cached_chunks_ whose buffer holds pages.
C36_EvictionLoopsTerminate ==
  /\ last_op.res # "NoEntryFoundException"
  /\ AtRest =>
       \A t \in DOMAIN eviction_tracker_map_ :
         \A need \in 0..max_pages_per_table_ :
           eviction_tracker_map_[t].num_pages_ + need > max_pages_per_table_ =>
             \E k \in SeqToSet(eviction_tracker_map_[t].eviction_alg_) :
               /\ k \in cached_chunks_
               /\ k \in DOMAIN file_buffers
               /\ file_buffers[k].pages > 0

\* C35: no cacheMetadataVec fails a CHECK, and in every state the file
\* manager holds a buffer for the data key of a variable length chunk if and
\* only if it holds one for the index key.
C35_VarlenBuffersPaired ==
  /\ ~(last_op.op = "cacheMetadataVec" /\ last_op.res = "CHECK")
  /\ \A k \in KnownKeys :
       is_varlen_data_key(k) =>
         (isBufferOnDevice(file_buffers, k)
            <=> isBufferOnDevice(file_buffers, IndexKeyOf(k)))

\* C34: a fetchBuffer for a chunk that is not cached, of a table with cached
\* metadata, fails no CHECK.
C34_FetchPassesAssertions ==
  last_op.op = "fetchBuffer" => last_op.res # "CHECK"

\* C37: after a fetchBuffer that has returned, every key that it handed to
\* cacheTableChunks is in cached_chunks_, its buffer holds the pages with the
\* data that the wrapper produced, and the pages of the list are counted in
\* num_pages_ of the table.
C37_CachedTableChunksKeepData ==
  (last_op.op = "fetchBuffer" /\ last_op.res = "none") =>
    /\ \A k \in SeqToSet(get_keys_vec_from_table(last_op.key)) :
         /\ k \in cached_chunks_
         /\ file_buffers[k].pages = PagesFor(file_buffers[k].size)
         /\ file_buffers[k].pages > 0
         /\ file_buffers[k].data = StorageData
    /\ eviction_tracker_map_[get_table_key(last_op.key)].num_pages_ >=
         PagesHeld(cached_chunks_, file_buffers,
                   SeqToSet(get_keys_vec_from_table(last_op.key)))

\* C33: when refreshChunksInCacheByFragment, called with a list of chunk keys
\* that is not empty, reaches its call of cacheTableChunks, the list that it
\* passes is not empty.
C33_RefreshCachesNonEmptyList ==
  (last_op.op = "refreshChunksInCacheByFragment" /\ last_op.phase = "handed") =>
    last_op.to_cache # <<>>

\* The last operation was a getInstance that reached reify over an inner
\* table with fragments.
Reified ==
  /\ join_op.op = "getInstance"
  /\ join_op.attempts # <<>>

C31_WitnessOverlaps ==
  /\ Reified
  /\ join_op.optype = "kOVERLAPS"
  /\ join_op.outer_is_array
  /\ join_op.last_err # "none"
  /\ join_op.res = "HashJoinFail"

\* C38: a table that initHashTableForDevice has taken from hash_table_cache_
\* has the layout that the build asked for and as many entries as
\* entry_count_ of the join hash table says.
C38_CachedTableMatchesBuild ==
  (join_op.op = "getInstance" /\ join_op.res = "ok" /\ join_op.hit # 0) =>
    /\ join_op.layout = join_op.attempts[join_op.hit]
    /\ join_op.entry_count = join_op.entry_count_

\* C39: while a thread copies from the temp buffer whose pointer it has
\* taken in fetchBufferIfTempBufferMapEntryExists, no other thread has
\* destroyed that buffer by erasing or replacing its map entry.
C39_TempBufferAliveWhileCopied ==
  \A th \in FetchThreads :
    temp_calls[th].pc = "copy" => ~temp_calls[th].dangling

\* No thread is inside getCachedChunkIfExists.
NoGetRunning == \A th \in FetchThreads : get_calls[th].pc = "idle"

\* The keys of the LRU queues.
QueuedKeys ==
  UNION {SeqToSet(eviction_tracker_map_[t].eviction_alg_) :
           t \in DOMAIN eviction_tracker_map_}

\* C40: a call of getCachedChunkIfExists(k) that runs next to insertions,
\* evictions, cacheMetadataVec and clearForTablePrefix returns a buffer only
\* if k is in cached_chunks_ when it touches k, and when no call is running
\* the keys of the LRU queues are the keys of cached_chunks_.
C40_TouchedChunkIsCached ==
  /\ \A th \in FetchThreads :
       get_calls[th].res = "buffer" => get_calls[th].cached_at_touch
  /\ (AtRest /\ NoGetRunning) => QueuedKeys = cached_chunks_
====
